---- MODULE Spec2Model ----
(***************************************************************************)
(* Agent Door gateway (kaylacar/agent-door).                               *)
(*                                                                         *)
(* The gateway modelled here is the createApp() revision of the server     *)
(* (dist/server.js lines 1-414; src/server.ts is the same handler code     *)
(* without the quota check), on the SQLite Registry (src/registry.ts) and  *)
(* the vendored SDK (vendor/sdk/dist/server.js, rate-limiter.js).          *)
(*                                                                         *)
(* Node runs one handler at a time: a handler runs atomically from one     *)
(* real suspension point (DNS resolution, fetch, reading a body) to the    *)
(* next. The URL checks of one registration read and write only that       *)
(* request's own data, so they are folded into one step.                   *)
(***************************************************************************)
EXTENDS Integers, Sequences, FiniteSets, TLC

(* ------------------------------ bounds -------------------------------- *)

\* concurrent requests in flight
NumReqs == 2
\* AgentDoor objects constructed in one run
MaxDoors == 3
\* clock advances in one run
MaxTicks == 3
\* the largest limit a rate limiter is asked to enforce
MaxLimit == 2
\* the longest burst of checkRateLimit calls on one key
MaxCalls == 4
\* POST /register calls in one run
MaxRegisters == 2
\* POST /register calls in one run of the quota specification
MaxQuotaRegisters == 3
\* the quota of dist/server.js:107 (500 there), scaled down
MAX_REGISTRATIONS == 2
\* SessionManager objects constructed in one run
MaxBoots == 2
MaxManagers == 2
\* session tokens issued in one run
MaxTokens == 1

(* ------------------------- program constants -------------------------- *)

REGISTER_LIMIT == 10
REGISTER_WINDOW_MS == 60000
windowMs == 60000
DefaultRateLimit == 60

None == "none"
\* an absent rateLimit field (undefined)
NoRate == -1

(* ------------------------------- URLs --------------------------------- *)

\* A parsed URL: scheme, host, path segments, and whether the string ends in "/".
\* A host is a DNS name, an IPv4 literal (four octets) or an IPv6 literal (eight
\* 16-bit groups). An IPv6 address is written in lower case in its shortest
\* form; "v6d" is an IPv4-mapped one written with a dotted tail (::ffff:a.b.c.d),
\* "v6" any address written in hex groups (::ffff:xxyy:zzww for a mapped one).
Name(n) == [t |-> "name", v |-> n]
V4(o) == [t |-> "v4", v |-> o]
V6(g) == [t |-> "v6", v |-> g]
V6Dotted(o) == [t |-> "v6d", v |-> <<0, 0, 0, 0, 0, 65535, o[1] * 256 + o[2], o[3] * 256 + o[4]>>]
\* g1::g8
G6(g1, g8) == <<g1, 0, 0, 0, 0, 0, 0, g8>>
\* ::ffff:g7:g8
Mapped6(g7, g8) == <<0, 0, 0, 0, 0, 65535, g7, g8>>
\* a string new URL() throws on
Unparsable == [scheme |-> "", host |-> Name(""), segs |-> <<>>, slash |-> FALSE]

\* net.isIPv6(ip)
isIPv6(h) == h.t \in {"v6", "v6d"}

\* The hex digits a group is written with, without leading zeros.
RECURSIVE HexDigits(_)
HexDigits(g) == IF g < 16 THEN <<g>> ELSE Append(HexDigits(g \div 16), g % 16)

\* normalized.startsWith(<digits>) for digits that begin with a non-zero one:
\* the text begins with its first group
StartsWithHex(h, digits) ==
  LET d == HexDigits(h.v[1])
  IN Len(d) >= Len(digits) /\ SubSeq(d, 1, Len(digits)) = digits

\* normalized.startsWith('::ffff:'), for an address in its shortest form
StartsWithMapped(h) == SubSeq(h.v, 1, 6) = <<0, 0, 0, 0, 0, 65535>>

\* `${(high >> 8) & 0xff}.${high & 0xff}.${(low >> 8) & 0xff}.${low & 0xff}`
HexToDotted(high, low) ==
  V4(<<(high \div 256) % 256, high % 256, (low \div 256) % 256, low % 256>>)
Url(scheme, host, segs, slash) == [scheme |-> scheme, host |-> host, segs |-> segs, slash |-> slash]

PublicIp == V4(<<93, 184, 216, 34>>)
PrivateIp == V4(<<10, 0, 0, 5>>)
MetaIp == V4(<<169, 254, 169, 254>>)

\* What the resolver may answer for a name (A and AAAA records together).
DnsAnswers == {<<>>, <<PublicIp>>, <<PublicIp, PrivateIp>>}

BLOCKED_HOSTNAMES ==
  {Name("localhost"), V4(<<127, 0, 0, 1>>), V4(<<0, 0, 0, 0>>), V6(G6(0, 1)),
   Name("metadata.google.internal")}

\* /^(10\.|172\.(1[6-9]|2\d|3[01])\.|192\.168\.|169\.254\.|127\.)/ on a dotted quad
PRIVATE_IP_RE(h) ==
  /\ h.t = "v4"
  /\ \/ h.v[1] = 10
     \/ h.v[1] = 172 /\ h.v[2] \in 16..31
     \/ h.v[1] = 192 /\ h.v[2] = 168
     \/ h.v[1] = 169 /\ h.v[2] = 254
     \/ h.v[1] = 127

isPrivateIP(h) ==
  LET v4rules(x) == x \in BLOCKED_HOSTNAMES \/ PRIVATE_IP_RE(x) \/ x = V4(<<0, 0, 0, 0>>)
  IN \/ v4rules(h)
     \/ /\ isIPv6(h)
        /\ \/ h.v = G6(0, 1)
           \/ HexDigits(h.v[1]) = <<15, 14, 8, 0>>
           \/ HexDigits(h.v[1]) = <<15, 12, 0, 0>>
           \/ StartsWithHex(h, <<15, 13>>)
           \/ StartsWithMapped(h) /\ v4rules(HexToDotted(h.v[7], h.v[8]))

\* url-guard.ts: PRIVATE_V4_PREFIXES.some(p => ip.startsWith(p)) on a dotted quad
isPrivateV4(h) ==
  \/ h.v[1] \in {10, 127, 0}
  \/ h.v[1] = 169 /\ h.v[2] = 254
  \/ h.v[1] = 192 /\ h.v[2] = 168
  \/ h.v[1] = 172 /\ h.v[2] \in 16..31

isPrivateV6(h) ==
  \/ h.v = G6(0, 1)
  \/ h.v = G6(0, 0)
  \/ StartsWithHex(h, <<15, 12>>)
  \/ StartsWithHex(h, <<15, 13>>)
  \/ StartsWithHex(h, <<15, 14, 8, 0>>)
  \/ StartsWithMapped(h) /\ isPrivateV4(HexToDotted(h.v[7], h.v[8]))

isPrivate(h) ==
  IF h.t = "v4" THEN isPrivateV4(h)
  ELSE IF isIPv6(h) THEN isPrivateV6(h)
  ELSE FALSE

isPublicUrl(u) ==
  /\ u.scheme \in {"http", "https"}
  /\ ~isPrivateIP(u.host)

\* A guard that looks at the scheme alone.
resolveAndValidateUrlSchemeOnly(u, dns) == u.scheme \in {"http", "https"}

\* dns is the resolver's answer, used only when the host is a name
\* parsed.hostname keeps the brackets of an IPv6 literal, so net.isIP() is 0
\* for it and it is looked up as a name; no name has brackets, both lookups
\* reject and all is empty.
resolveAndValidateUrl(u, dns) ==
  IF u = Unparsable THEN FALSE
  ELSE IF ~isPublicUrl(u) THEN FALSE
  ELSE IF u.host.t = "v4" THEN ~isPrivateIP(u.host)
  ELSE IF isIPv6(u.host) THEN FALSE
  ELSE IF Len(dns) = 0 THEN FALSE
  ELSE \A i \in 1..Len(dns) : ~isPrivateIP(dns[i])

\* whether resolveAndValidateUrl calls dns.resolve4 / dns.resolve6
resolves(u) == u # Unparsable /\ isPublicUrl(u) /\ u.host.t # "v4"

\* url-guard.ts validateExternalUrl: "ok", or the reason it throws with; an
\* empty dns is a lookup that rejects
validateExternalUrl(u, dns) ==
  IF u = Unparsable THEN "invalid URL"
  ELSE IF u.scheme \notin {"http", "https"} THEN "only http/https allowed"
  ELSE IF u.host.t # "name"
       THEN IF isPrivate(u.host) THEN "private/internal address" ELSE "ok"
  ELSE IF Len(dns) = 0 THEN "can't resolve"
  ELSE IF \E i \in 1..Len(dns) : isPrivate(dns[i]) THEN "resolves to private/internal address"
  ELSE "ok"

\* (apiUrl ?? siteUrl).replace(/\/$/, '')
StripSlash(u) == [u EXCEPT !.slash = FALSE]
\* `${resolvedApiUrl}/openapi.json`
OpenApiJson(u) == [u EXCEPT !.segs = Append(u.segs, "openapi.json"), !.slash = FALSE]

(* --------------------------- request inputs --------------------------- *)

\* Slugs are character sequences, so that the slug pattern is computed.
Slugs == {<<"s", "1">>, <<"s", "2">>, <<"s", "3">>}
ShortSlug == <<"x">>
\* slugs with a hyphen in front, with a hyphen at the end, and one that names a route
HyphenSlugs == {<<"-", "a">>, <<"a", "-">>}
RouteSlug == <<"s", "i", "t", "e", "s">>
AllSlugs == Slugs \cup {ShortSlug, RouteSlug} \cup HyphenSlugs

SlugChars ==
  {"a", "b", "c", "d", "e", "f", "g", "h", "i", "j", "k", "l", "m", "n", "o", "p", "q",
   "r", "s", "t", "u", "v", "w", "x", "y", "z",
   "0", "1", "2", "3", "4", "5", "6", "7", "8", "9", "-"}

\* /^[a-z0-9-]{2,40}$/.test(slug)
SlugPattern(slug) ==
  /\ Len(slug) >= 2
  /\ Len(slug) <= 40
  /\ \A i \in 1..Len(slug) : slug[i] \in SlugChars

\* an absent (or non-string) URL field
NoUrl == Url(None, Name(None), <<>>, FALSE)
PubSite == Url("https", Name("example.com"), <<>>, FALSE)
PubApi == Url("https", Name("api.example.com"), <<>>, TRUE)
PubSpec == Url("https", Name("api.example.com"), <<"spec.json">>, FALSE)
MetaSpec == Url("http", MetaIp, <<"latest", "meta-data">>, TRUE)
PrivSite == Url("http", PrivateIp, <<>>, FALSE)

\* The request bodies POST /register is sent (the slug is chosen apart).
\* A field that is absent or not of the expected type is None.
Bodies ==
  [ api      |-> [siteName |-> "Store A", siteUrl |-> PubSite, apiUrl |-> PubApi,
                  openApiUrl |-> NoUrl, rateLimit |-> 1],
    spec     |-> [siteName |-> "Store B", siteUrl |-> PubSite, apiUrl |-> NoUrl,
                  openApiUrl |-> PubSpec, rateLimit |-> 2],
    ssrf     |-> [siteName |-> "Store A", siteUrl |-> PubSite, apiUrl |-> NoUrl,
                  openApiUrl |-> MetaSpec, rateLimit |-> 1],
    privsite |-> [siteName |-> "Store A", siteUrl |-> PrivSite, apiUrl |-> PubApi,
                  openApiUrl |-> NoUrl, rateLimit |-> 1],
    nofields |-> [siteName |-> None, siteUrl |-> PubSite, apiUrl |-> PubApi,
                  openApiUrl |-> NoUrl, rateLimit |-> 1],
    nourl    |-> [siteName |-> "Store A", siteUrl |-> PubSite, apiUrl |-> NoUrl,
                  openApiUrl |-> NoUrl, rateLimit |-> 1],
    badrate  |-> [siteName |-> "Store A", siteUrl |-> PubSite, apiUrl |-> PubApi,
                  openApiUrl |-> NoUrl, rateLimit |-> 1001] ]
BodyNames == DOMAIN Bodies

\* Request headers that may carry the admin key.
NoAuth == [scheme |-> None, rest |-> None]
Creds ==
  [ anon      |-> [xAdminKey |-> None, authorization |-> NoAuth, xApiKey |-> None],
    admin_ok  |-> [xAdminKey |-> "secret", authorization |-> NoAuth, xApiKey |-> None],
    admin_bad |-> [xAdminKey |-> "wrong", authorization |-> NoAuth, xApiKey |-> None],
    bearer_ok |-> [xAdminKey |-> None, authorization |-> [scheme |-> "Bearer", rest |-> "secret"],
                   xApiKey |-> None],
    apikey_ok |-> [xAdminKey |-> None, authorization |-> NoAuth, xApiKey |-> "secret"] ]
CredNames == DOMAIN Creds

\* The one client address of the model (req.ip).
ClientIp == "ip1"

\* What the fetch of the spec URL may come to (dist/server.js:272-299).
FetchOutcomes == {"ok", "http_error", "too_large", "bad_json", "no_paths", "too_many_paths"}

\* The OpenAPI document the upstream serves when the fetch succeeds.
SpecText == [paths |-> <<[path |-> "/items", method |-> "get", operationId |-> "listItems"]>>]

(* ------------------------------- state -------------------------------- *)

VARIABLES
  now,              \* Date.now()
  ticks,            \* clock advances so far
  adminKey,         \* ADMIN_KEY of the process environment, None when unset
  registry,         \* the registrations table, rows in rowid order
  doors,            \* Map slug -> AgentDoor (a door id; 0 when absent)
  doorMiddlewares,  \* Map slug -> middleware of a door (its door id; 0 when absent)
  heap,             \* the AgentDoor objects constructed so far, by door id
  registerWindow,   \* Map ip -> timestamps of registration attempts
  req,              \* the requests in flight
  guarded,          \* per slug: the URLs the guard accepted for the stored row
  resp,             \* the response the step just taken sent (NoResp when it sent none)
  windows,          \* a RateLimiter on its own: Map key -> timestamps
  callLimit,        \* the limit its callers pass
  burst,            \* per key: the calls since its window last started empty
  managers,         \* the SessionManager objects constructed so far
  issued,           \* per token issued so far: by whom, when, and whether still live
  smResult,         \* what the SessionManager call of the step just taken returned
  upcall,           \* the capability call of one AgentDoor that awaits its upstream
  dresp,            \* what that AgentDoor answered to the request just handled
  served,           \* the text the upstream serves as its OpenAPI document now
  boot,             \* whether the gateway process runs, and how often it was started
  manifest,         \* per slug: the capabilities of the door its registration built
  disk,             \* the backing file of a file Registry
  freg,             \* that Registry: its process, its sites map, its write in progress
  fresult,          \* what its call of the step just taken did, and its last mutation
  table,            \* the registrations table of a SQLite Registry, by slug
  written,          \* per slug: the registration register() was given for the row
  sresult,           \* what the SQLite Registry's call of the step just taken returned
  sitesMap,         \* the Map of a file Registry, its entries in the Map's own order
  writes,            \* the register calls that Registry has had so far
  attempts,          \* the POST /register calls of the client so far: when, and how answered
  adminRateWindows, \* Map ip -> timestamps of the admin requests the limiter let through
  adminPassed,       \* every instant at which the admin limiter let a request through
  proc,             \* the server process: listening, signalled, tenants and registry, exit code
  conns,             \* its connections: whether a request is being served on each
  answered,          \* the last two GET /sites requests: their headers, the URLs answered
  routed,            \* the /:slug request just routed: its URL, what the door saw, what fell through
  routes,           \* this.routes of one AgentDoor on its own, <<>> before it is constructed
  dispatched,        \* the request its middleware just got: which route handled it
  checked,           \* the checkRateLimit call just made on it: arguments, window before and after, result
  urlChecked,          \* the URL check just made: by which guard, on what, with which outcome
  probe,             \* the address just put to a blocked-address predicate, and its answer
  tenants,          \* two tenants side by side: their doors, and the SessionManager and RateLimiter objects
  tres,              \* the request a tenant just served, or its deletion
  twin,             \* one run of calls on two copies of the state: a is compacted now and then, b never
  twinRes           \* the call just made: what it answered on either copy

gatewayVars == <<adminKey, registry, doors, doorMiddlewares, heap, registerWindow,
                 req, guarded, resp>>
rateVars == <<windows, callLimit, burst>>
sessVars == <<managers, issued, smResult>>
doorVars == <<upcall, dresp>>
restartVars == <<served, boot, manifest>>
fileVars == <<disk, freg, fresult>>
storeVars == <<table, written, sresult>>
listVars == <<sitesMap, writes>>
attemptVars == <<attempts>>
adminVars == <<adminRateWindows, adminPassed>>
shutdownVars == <<proc, conns>>
baseVars == <<answered>>
routeVars == <<routed>>
dispatchVars == <<routes, dispatched>>
checkVars == <<checked>>
guardVars == <<urlChecked, probe>>
tenantVars == <<tenants, tres>>
twinVars == <<twin, twinRes>>
vars == <<now, ticks, gatewayVars, rateVars, sessVars, doorVars, restartVars, fileVars,
          storeVars,
          listVars,
          attemptVars,
          adminVars,
          shutdownVars,
          baseVars,
          routeVars,
          dispatchVars,
          checkVars,
          guardVars,
          tenantVars,
          twinVars>>

\* what a step of the gateway, of a RateLimiter, of a SessionManager leaves alone
offGateway == <<rateVars, sessVars, doorVars, restartVars, fileVars,
               storeVars,
    listVars,
    attemptVars,
    adminVars,
    shutdownVars,
    baseVars,
    routeVars,
    dispatchVars,
    checkVars,
    guardVars,
    tenantVars,
    twinVars>>
offRate == <<gatewayVars, sessVars, doorVars, restartVars, fileVars,
               storeVars,
    listVars,
    attemptVars,
    adminVars,
    shutdownVars,
    baseVars,
    routeVars,
    dispatchVars,
    guardVars,
    tenantVars,
    twinVars>>
offSess == <<gatewayVars, rateVars, doorVars, restartVars, fileVars,
               storeVars,
    listVars,
    attemptVars,
    adminVars,
    shutdownVars,
    baseVars,
    routeVars,
    dispatchVars,
    checkVars,
    guardVars,
    tenantVars,
    twinVars>>
\* what a request to one AgentDoor's routes leaves alone
offDoor == <<now, ticks, gatewayVars, callLimit, burst, smResult, restartVars, fileVars,
            storeVars,
    listVars,
    attemptVars,
    adminVars,
    shutdownVars,
    baseVars,
    routeVars,
    dispatchVars,
    checkVars,
    guardVars,
    tenantVars,
    twinVars>>
\* what registering, stopping and starting the gateway leaves alone
offRestart == <<now, ticks, adminKey, registerWindow, req, guarded, rateVars, sessVars,
                doorVars, fileVars, storeVars,
    listVars,
    attemptVars,
    adminVars,
    shutdownVars,
    baseVars,
    routeVars,
    dispatchVars,
    checkVars,
    guardVars,
    tenantVars,
    twinVars>>
\* what a file Registry leaves alone
offFile == <<now, ticks, gatewayVars, rateVars, sessVars, doorVars, restartVars, storeVars,
    listVars,
    attemptVars,
    adminVars,
    shutdownVars,
    baseVars,
    routeVars,
    dispatchVars,
    checkVars,
    guardVars,
    tenantVars,
    twinVars>>
\* what a SQLite Registry leaves alone
offStore == <<now, ticks, gatewayVars, rateVars, sessVars, doorVars, restartVars, fileVars,
    listVars,
    attemptVars,
    adminVars,
    shutdownVars,
    baseVars,
    routeVars,
    dispatchVars,
    checkVars,
    guardVars,
    tenantVars,
    twinVars>>
\* what the Map of a file Registry leaves alone
offList == <<now, ticks, gatewayVars, rateVars, sessVars, doorVars,
    restartVars, fileVars, storeVars,
    attemptVars,
    adminVars,
    shutdownVars,
    baseVars,
    routeVars,
    dispatchVars,
    checkVars,
    guardVars,
    tenantVars,
    twinVars>>
\* what a logged POST /register leaves alone
offAttempt == <<rateVars, sessVars, doorVars, restartVars, fileVars, storeVars,
    listVars, adminVars,
    shutdownVars,
    baseVars,
    routeVars,
    dispatchVars,
    checkVars,
    guardVars,
    tenantVars,
    twinVars>>
\* what the admin endpoints behind the limiter leave alone
offAdmin == <<now, ticks, rateVars, sessVars, doorVars, restartVars, fileVars,
    storeVars, listVars, attemptVars,
    shutdownVars,
    baseVars,
    routeVars,
    dispatchVars,
    checkVars,
    guardVars,
    tenantVars,
    twinVars>>
\* what the server process and its connections leave alone
offShutdown == <<now, ticks, gatewayVars, rateVars, sessVars, doorVars, restartVars,
    fileVars, storeVars, listVars, attemptVars, adminVars,
    baseVars,
    routeVars,
    dispatchVars,
    checkVars,
    guardVars,
    tenantVars,
    twinVars>>
\* what a GET /sites with its headers leaves alone
offBase == <<rateVars, sessVars, doorVars, restartVars, fileVars, storeVars,
    listVars, attemptVars, adminVars, shutdownVars,
    routeVars,
    dispatchVars,
    checkVars,
    guardVars,
    tenantVars,
    twinVars>>
\* what routing a /:slug request leaves alone
offRoute == <<now, ticks, gatewayVars, rateVars, sessVars, doorVars,
    restartVars, fileVars, storeVars, listVars, attemptVars, adminVars,
    shutdownVars, baseVars,
    dispatchVars,
    checkVars,
    guardVars,
    tenantVars,
    twinVars>>
\* what the dispatch of one AgentDoor leaves alone
offDispatch == <<now, ticks, gatewayVars, rateVars, sessVars, doorVars,
    restartVars, fileVars, storeVars, listVars, attemptVars, adminVars,
    shutdownVars, baseVars, routeVars,
    checkVars,
    guardVars,
    tenantVars,
    twinVars>>
\* what the URL guards leave alone
offGuard == <<now, ticks, gatewayVars, rateVars, sessVars, doorVars,
    restartVars, fileVars, storeVars, listVars, attemptVars, adminVars,
    shutdownVars, baseVars, routeVars, dispatchVars, checkVars,
    tenantVars,
    twinVars>>
\* what the requests of two tenants leave alone
offTenant == <<now, ticks, gatewayVars, rateVars, sessVars, doorVars,
    restartVars, fileVars, storeVars, listVars, attemptVars, adminVars,
    shutdownVars, baseVars, routeVars, dispatchVars, checkVars, guardVars,
    twinVars>>
\* what the twin run leaves alone
offTwin == <<now, ticks, gatewayVars, rateVars, sessVars, doorVars,
    restartVars, fileVars, storeVars, listVars, attemptVars, adminVars,
    shutdownVars, baseVars, routeVars, dispatchVars, checkVars, guardVars,
    tenantVars>>

\* no door was registered for the slug, or its row was changed behind the gateway
Void == <<>>

\* The backing file: absent, a JSON array of entries, cut short by a write that
\* did not finish (empty or a prefix of the text), or some other text that is
\* no JSON.
Absent == [kind |-> "absent", entries |-> {}]
Torn == [kind |-> "torn", entries |-> {}]
Garbage == [kind |-> "garbage", entries |-> {}]

\* no process holds the Registry
Closed == [up |-> FALSE, sites |-> {}, pc |-> "idle"]
NoFileResult == [op |-> None, ok |-> TRUE, raw |-> Absent, mutated |-> FALSE,
                 before |-> {}, after |-> {}]

\* no row, no registration (a row or registration r is held as <<r>>);
\* undefined and SQL NULL
NoRow == <<>>
Undefined == [t |-> "undefined"]
Null == [t |-> "null"]
TwoSlugs == {<<"s", "1">>, <<"s", "2">>}
NoStoreResult == [op |-> None, slug |-> <<>>, value |-> NoRow, reopened |-> FALSE]

NoResult == [op |-> None, m |-> 0, token |-> 0, found |-> FALSE]

\* no capability call in flight; no response yet
NoCall == [pc |-> "idle", cap |-> None, allowed |-> FALSE, needs |-> FALSE, valid |-> FALSE]
NoDoorResp == [route |-> None, status |-> 0, error |-> <<>>, token |-> 0, data |-> None,
               upstream |-> <<>>]

Keys == {"k1", "k2"}
NoBurst == [open |-> FALSE, start |-> 0, calls |-> 0, allowed |-> 0]

\* connections a server process holds at once
MaxConns == 2

\* exit code of a process that still runs; signalledAt of one no signal has reached
Running == -1

\* no /:slug request was routed in the step just taken
NoRouted == [slug |-> <<>>, original |-> <<>>, status |-> 0, seen |-> <<>>, after |-> <<>>]

\* no request was dispatched in the step just taken
NoDispatch == [method |-> None, path |-> <<>>, route |-> 0, status |-> 0]

\* no checkRateLimit call was made yet
NoCheck == [key |-> None, limit |-> 0, at |-> 0, before |-> <<>>, after |-> <<>>,
            allowed |-> FALSE, remaining |-> 0, resetAt |-> 0]

\* no URL was checked, no address probed
NoGuarded == [by |-> None, url |-> Unparsable, dns |-> <<>>, ok |-> FALSE, looked |-> FALSE]
NoProbe == [by |-> None, addr |-> V4(<<0, 0, 0, 0>>), blocked |-> FALSE]

\* URLs put to the guards: every scheme and kind of host
GuardHosts ==
  {Name("api.example.com"), Name("localhost"), PublicIp, PrivateIp, V4(<<8, 8, 8, 8>>),
   V6(G6(0, 1)), V6(G6(64786, 1)), V6(G6(8193, 34952)), V6(Mapped6(32512, 1)),
   V6(Mapped6(2056, 2056))}
GuardUrls ==
  {Unparsable} \cup {Url(s, h, <<"openapi.json">>, FALSE) : s \in {"http", "https", "ftp"}, h \in GuardHosts}
\* answers of the resolver, A and AAAA records together
GuardDns ==
  {<<>>, <<PublicIp>>, <<PublicIp, PrivateIp>>, <<V6(G6(8193, 34952))>>,
   <<PublicIp, V6(G6(64786, 1))>>, <<V6Dotted(<<127, 0, 0, 1>>)>>}

\* addresses put to the blocked-address predicates
ProbeOctets == {0, 8, 10, 127, 169, 172, 192}
ProbeSeconds == {0, 15, 16, 31, 32, 168, 254}
\* fc00, fc01, fd12, fe00, fe80, fe90, febf, fec0, 2001 as first groups
ProbeGroups == {64512, 64513, 64786, 65024, 65152, 65168, 65215, 65216, 8193}
ProbeAddrs ==
  {V4(<<a, b, 1, 2>>) : a \in ProbeOctets, b \in ProbeSeconds}
  \cup {V4(<<0, 0, 0, 0>>), V4(<<8, 8, 8, 8>>), V6(G6(0, 1)), V6(G6(0, 0))}
  \cup {V6(G6(g, 1)) : g \in ProbeGroups}
  \cup {V6Dotted(<<a, 8, 8, 8>>) : a \in ProbeOctets}
  \cup {V6(Mapped6(a * 256 + 8, 2056)) : a \in ProbeOctets}

\* AgentDoor objects built in one run of the two-tenant specification
MaxTenantDoors == 2
\* session tokens issued in one run of the two-tenant specification
MaxTenantTokens == 1
\* config.sessionTtl ?? 3600
DefaultSessionTtl == 3600

Tenants == {"A", "B"}
\* no door is installed, no object built
NoDoor == [up |-> FALSE, sm |-> 0, rl |-> 0, rateLimit |-> 0, capabilities |-> <<>>]
NoTenants == [door |-> [t \in Tenants |-> NoDoor], sessions |-> <<>>, limiters |-> <<>>,
              issued |-> 0]
NoTres == [tenant |-> None, op |-> None, status |-> 0, token |-> 0]

\* the state the compactions work on: a RateLimiter's windows, a
\* SessionManager's sessions, the gateway's registerWindow
NoCopy == [windows |-> <<>>, sessions |-> {}, reg |-> [ip \in {"ip1"} |-> <<>>]]
NoTwin == [kind |-> None, a |-> NoCopy, b |-> NoCopy, issued |-> 0]
NoTwinRes == [op |-> None, compacted |-> <<>>, plain |-> <<>>, differed |-> FALSE]

Reqs == 1..NumReqs

Idle == [pc |-> "idle", kind |-> None, slug |-> <<>>, body |-> None, door |-> 0,
         accepted |-> {}, fetched |-> FALSE]

NoResp == [kind |-> None, status |-> 0, slug |-> <<>>, body |-> None, cred |-> None,
           err |-> None, site |-> None, door |-> 0, fetched |-> FALSE, dup |-> FALSE]

Init ==
  /\ now = 0
  /\ ticks = 0
  /\ adminKey \in {None, "secret"}
  /\ registry = <<>>
  /\ doors = [s \in AllSlugs |-> 0]
  /\ doorMiddlewares = [s \in AllSlugs |-> 0]
  /\ heap = <<>>
  /\ registerWindow = [ip \in {ClientIp} |-> <<>>]
  /\ req = [r \in Reqs |-> Idle]
  /\ guarded = [s \in AllSlugs |-> {}]
  /\ resp = NoResp
  /\ windows = <<>>
  /\ callLimit \in 1..MaxLimit
  /\ burst = [k \in Keys |-> NoBurst]
  /\ managers = <<>>
  /\ issued = <<>>
  /\ smResult = NoResult
  /\ upcall = NoCall
  /\ dresp = NoDoorResp
  /\ served = "specA"
  /\ boot = [up |-> TRUE, n |-> 0]
  /\ manifest = [s \in AllSlugs |-> Void]
  /\ disk = Absent
  /\ freg = Closed
  /\ fresult = NoFileResult
  /\ table = [s \in TwoSlugs |-> NoRow]
  /\ written = [s \in TwoSlugs |-> NoRow]
  /\ sresult = NoStoreResult
  /\ sitesMap = <<>>
  /\ writes = 0
  /\ attempts = <<>>
  /\ adminRateWindows = [ip \in {ClientIp} |-> <<>>]
  /\ adminPassed = <<>>
  /\ proc = [listening |-> TRUE, signalledAt |-> -1, destroyed |-> FALSE,
             registryClosed |-> FALSE, exit |-> -1]
  /\ conns = [c \in 1..MaxConns |-> "none"]
  /\ answered = <<>>
  /\ routed = NoRouted
  /\ routes = <<>>
  /\ dispatched = NoDispatch
  /\ checked = NoCheck
  /\ urlChecked = NoGuarded
  /\ probe = NoProbe
  /\ tenants = NoTenants
  /\ tres = NoTres
  /\ twin = NoTwin
  /\ twinRes = NoTwinRes

(* ----------------------------- admin auth ----------------------------- *)

\* Buffer lengths differ -> false; else crypto.timingSafeEqual: equal contents
timingSafeEqual(a, b) == a = b

\* req.headers['x-admin-key'] ?? req.headers['authorization']?.replace(/^Bearer\s+/i, '')
Provided(h) ==
  IF h.xAdminKey # None THEN h.xAdminKey
  ELSE IF h.authorization # NoAuth THEN h.authorization.rest
  ELSE None

\* TRUE when requireAdmin calls next(), FALSE when it answers 401
requireAdmin(h) ==
  IF adminKey = None THEN TRUE
  ELSE Provided(h) # None /\ timingSafeEqual(Provided(h), adminKey)

(* ----------------------- registration rate window --------------------- *)

Recent(ts, cutoff) == SelectSeq(ts, LAMBDA t : t > cutoff)

\* checkRegisterRate on the timestamps registerWindow holds for the ip
checkRegisterRateOn(timestamps) ==
  LET recent == Recent(timestamps, now - REGISTER_WINDOW_MS)
      allowed == Len(recent) < REGISTER_LIMIT
  IN [allowed |-> allowed,
      window |-> IF allowed THEN Append(recent, now) ELSE recent]

\* registerCleanupInterval: every ip keeps its recent timestamps; an ip left
\* with none is deleted, which reads as [] again
registerSweep(w) == [ip \in DOMAIN w |-> Recent(w[ip], now - REGISTER_WINDOW_MS)]

\* A cleanup that drops every window.
cleanupAll(w) == <<>>

\* RateLimiter.cleanup() on the windows map
cleanup(w) ==
  [k \in {x \in DOMAIN w : Len(Recent(w[x], now - windowMs)) > 0} |->
     Recent(w[k], now - windowMs)]

\* SessionManager.cleanup() on the sessions map
cleanupSessions(sessions) == {x \in sessions : ~(now > x.expiresAt)}

\* A checkRegisterRate that lets one call more through.
checkRegisterRateLate(ip) ==
  LET recent == Recent(registerWindow[ip], now - REGISTER_WINDOW_MS)
      allowed == Len(recent) <= REGISTER_LIMIT
  IN [allowed |-> allowed,
      window |-> IF allowed THEN Append(recent, now) ELSE recent]

\* checkRegisterRate(ip): its result, and the window it leaves behind
checkRegisterRate(ip) == checkRegisterRateOn(registerWindow[ip])

(* ----------------------------- the registry --------------------------- *)

RegistrySlugs == {registry[i].slug : i \in 1..Len(registry)}

\* Registry.get(slug): the row, or None
RegistryGet(slug) ==
  IF slug \in RegistrySlugs
  THEN (CHOOSE i \in 1..Len(registry) : registry[i].slug = slug)
  ELSE 0

\* A DELETE that matches no row.
RegistryDeleteNothing(slug) == registry

\* Registry.delete(slug): DELETE FROM registrations WHERE slug = ?
RegistryDelete(slug) == SelectSeq(registry, LAMBDA row : row.slug # slug)

\* Registry.register: the INSERT fails on the primary key when the slug has a row
InsertThrows(slug) == slug \in RegistrySlugs

\* A register() that writes the row before the key conflict is raised.
RegistryRegisterWritesFirst(reg) ==
  IF InsertThrows(reg.slug)
  THEN [i \in 1..Len(registry) |-> IF registry[i].slug = reg.slug THEN reg ELSE registry[i]]
  ELSE Append(registry, reg)

\* Registry.register(reg): the rows after the INSERT; one that throws on the
\* primary key leaves them as they were
RegistryRegister(reg) ==
  IF InsertThrows(reg.slug) THEN registry ELSE Append(registry, reg)

(* ------------------------------ AgentDoor ----------------------------- *)

methodMap == [get |-> "GET", post |-> "POST", put |-> "PUT", patch |-> "PATCH", delete |-> "DELETE"]

\* AgentDoor.fromOpenAPI: one capability per (path, method) of the document
fromOpenAPI(spec) ==
  [i \in 1..Len(spec.paths) |->
     [name |-> spec.paths[i].operationId,
      method |-> methodMap[spec.paths[i].method],
      requiresSession |-> FALSE]]

NewDoor(slug, siteName, rateLimit, spec) ==
  [slug |-> slug, site |-> siteName, rateLimit |-> rateLimit,
   capabilities |-> fromOpenAPI(spec), destroyed |-> FALSE,
   windows |-> [ip \in {ClientIp} |-> <<>>]]

\* AgentDoor.destroy(): the rate limiter's windows are cleared, the timers stopped
Destroyed(door) == [door EXCEPT !.destroyed = TRUE, !.windows = [ip \in {ClientIp} |-> <<>>]]

\* A limiter that refuses only above the limit.
checkRateLimitAbove(ts, limit) ==
  LET kept == Recent(ts, now - windowMs)
  IN IF Len(kept) > limit
     THEN [allowed |-> FALSE, remaining |-> 0, resetAt |-> kept[1] + windowMs,
           timestamps |-> kept]
     ELSE [allowed |-> TRUE, remaining |-> limit - (Len(kept) + 1), resetAt |-> now + windowMs,
           timestamps |-> Append(kept, now)]

\* RateLimiter.checkRateLimit(key, limit) on a window
checkRateLimit(ts, limit) ==
  LET kept == Recent(ts, now - windowMs)
  IN IF Len(kept) >= limit
     THEN [allowed |-> FALSE, remaining |-> 0, resetAt |-> kept[1] + windowMs,
           timestamps |-> kept]
     ELSE [allowed |-> TRUE, remaining |-> limit - (Len(kept) + 1), resetAt |-> now + windowMs,
           timestamps |-> Append(kept, now)]

\* A set() that is lost.
MapSetLost(m, k, v) == m

\* doors.set(slug, door), doorMiddlewares.set(slug, door.middleware())
MapSet(m, k, v) == [m EXCEPT ![k] = v]

\* A delete() that is lost.
MapDeleteLost(m, k) == m

\* doors.delete(slug), doorMiddlewares.delete(slug)
MapDelete(m, k) == [m EXCEPT ![k] = 0]

\* A lookup that falls back to the door built last.
LookupOrLast(slug) == IF doorMiddlewares[slug] # 0 THEN doorMiddlewares[slug] ELSE Len(heap)

\* doorMiddlewares.get(slug): a door id, 0 for undefined
Lookup(slug) == doorMiddlewares[slug]

\* doors.size
DoorCount == Cardinality({s \in AllSlugs : doors[s] # 0})

(* ------------------------------ responses ----------------------------- *)

Respond(r, fields) ==
  /\ resp' = fields
  /\ req' = [req EXCEPT ![r] = Idle]

Reply(kind, status, slug, err) ==
  [NoResp EXCEPT !.kind = kind, !.status = status, !.slug = slug, !.err = err]

(* --------------------------- POST /register --------------------------- *)

\* The checks of the handler that run before its first await, in order: the
\* status and error they answer with, or status 0 when all pass.
Admission(h, rateAllowed, slug, body) ==
  IF ~requireAdmin(h) THEN [status |-> 401, err |-> "invalid_admin_key"]
  ELSE IF ~rateAllowed THEN [status |-> 429, err |-> "too_many_registrations"]
  ELSE IF body.siteName = None \/ body.siteUrl = NoUrl
    THEN [status |-> 400, err |-> "missing_fields"]
  ELSE IF body.apiUrl = NoUrl /\ body.openApiUrl = NoUrl
    THEN [status |-> 400, err |-> "provide_api_url"]
  ELSE IF ~SlugPattern(slug) THEN [status |-> 400, err |-> "bad_slug"]
  ELSE IF body.rateLimit # NoRate /\ (body.rateLimit < 1 \/ body.rateLimit > 1000)
    THEN [status |-> 400, err |-> "bad_rate_limit"]
  ELSE IF DoorCount >= MAX_REGISTRATIONS THEN [status |-> 503, err |-> "max_registrations"]
  ELSE IF doors[slug] # 0 THEN [status |-> 409, err |-> "already_registered"]
  ELSE [status |-> 0, err |-> None]

\* A POST /register arrives: requireAdmin, checkRegisterRate and the synchronous
\* checks; the handler then suspends in its first URL check.
RegisterArrives(r, b, slug, c) ==
  /\ req[r].pc = "idle"
  /\ LET h == Creds[c]
         rate == checkRegisterRate(ClientIp)
         adm == Admission(h, rate.allowed, slug, Bodies[b])
     IN /\ registerWindow' = IF requireAdmin(h)
                             THEN [registerWindow EXCEPT ![ClientIp] = rate.window]
                             ELSE registerWindow
        /\ IF adm.status = 0
           THEN /\ req' = [req EXCEPT ![r] = [Idle EXCEPT !.pc = "guard", !.kind = "register",
                                                         !.slug = slug, !.body = b]]
                /\ resp' = NoResp
           ELSE Respond(r, [Reply("register", adm.status, slug, adm.err)
                              EXCEPT !.body = b, !.cred = c])
  /\ UNCHANGED <<now, ticks, adminKey, registry, doors, doorMiddlewares, heap, guarded>>

RegisterArrive(r, b, slug, c) == RegisterArrives(r, b, slug, c) /\ UNCHANGED offGateway

\* res.set('Retry-After', '60') of the 429 of POST /register: the seconds the
\* answer names, 0 when it carries no such header
retryAfter(err) == IF err = "too_many_registrations" THEN 60 ELSE 0

\* calls of the client that are logged
MaxAttempts == 12

\* The same arrival, entered in the log of the client's calls.
RegisterLogged(b, slug) ==
  /\ Len(attempts) < MaxAttempts
  /\ RegisterArrives(1, b, slug, "anon")
  /\ attempts' = Append(attempts, [at |-> now, limited |-> resp'.status = 429,
                                   retryAfter |-> retryAfter(resp'.err)])
  /\ UNCHANGED offAttempt

resolvedApiUrl(body) == StripSlash(IF body.apiUrl # NoUrl THEN body.apiUrl ELSE body.siteUrl)

specUrl(body) ==
  IF body.openApiUrl # NoUrl THEN body.openApiUrl ELSE OpenApiJson(resolvedApiUrl(body))

\* [siteUrl, apiUrl?, openApiUrl?]
urlsToCheck(body) ==
  <<body.siteUrl>>
    \o (IF body.apiUrl # NoUrl THEN <<body.apiUrl>> ELSE <<>>)
    \o (IF body.openApiUrl # NoUrl THEN <<body.openApiUrl>> ELSE <<>>)

\* The checks of a handler that leaves siteUrl out of urlsToCheck.
GuardedUrlsNoSite(body) ==
  (IF body.apiUrl # NoUrl THEN <<body.apiUrl>> ELSE <<>>)
    \o (IF body.openApiUrl # NoUrl THEN <<body.openApiUrl>> ELSE <<>>)
    \o <<specUrl(body)>>

\* Every URL the handler puts to resolveAndValidateUrl before the fetch, in order.
GuardedUrls(body) == Append(urlsToCheck(body), specUrl(body))

\* The DNS answers the URL checks of request r may get, one per check, each
\* drawn from answers.
DnsFor(r, answers) == [1..Len(GuardedUrls(Bodies[req[r].body])) -> answers]

\* The URL checks, check i with DNS answer dns[i]; when all pass the spec fetch
\* is issued and the handler suspends in it.
RegisterGuard(r, dns) ==
  /\ req[r].pc = "guard"
  /\ LET body == Bodies[req[r].body]
           us == GuardedUrls(body)
           bad == {i \in 1..Len(us) : ~resolveAndValidateUrl(us[i], dns[i])}
           first == IF bad = {} THEN Len(us) + 1
                    ELSE CHOOSE i \in bad : \A j \in bad : i <= j
           accepted == {us[i] : i \in 1..(first - 1)}
       IN IF bad = {}
          THEN /\ req' = [req EXCEPT ![r].pc = "fetching", ![r].accepted = accepted,
                                     ![r].fetched = TRUE]
               /\ resp' = NoResp
          ELSE Respond(r, [Reply("register", 400, req[r].slug,
                                 IF first <= Len(urlsToCheck(body)) THEN "url_not_allowed"
                                 ELSE "spec_url_not_allowed")
                             EXCEPT !.body = req[r].body])
  /\ UNCHANGED <<now, ticks, offGateway, adminKey, registry, doors, doorMiddlewares, heap,
                 registerWindow, guarded>>

\* The row POST /register persists.
Registration(slug, body) ==
  [slug |-> slug, siteName |-> body.siteName, siteUrl |-> body.siteUrl,
   apiUrl |-> resolvedApiUrl(body), openApiUrl |-> body.openApiUrl,
   rateLimit |-> IF body.rateLimit # NoRate THEN body.rateLimit ELSE DefaultRateLimit,
   specJson |-> SpecText, createdAt |-> now]

\* The spec fetch returns. On failure: 400. On success the door is built, then,
\* with no await in between, the row is inserted, the door installed and the
\* success response sent. An INSERT that fails on the primary key throws out of
\* the async handler after the door was built: Express 5 answers 500, Express 4
\* leaves the rejection unhandled and sends nothing (status 0).
RegisterFetched(r, outcome) ==
  /\ req[r].pc = "fetching"
  /\ LET slug == req[r].slug
         body == Bodies[req[r].body]
         reg == Registration(slug, body)
         id == Len(heap) + 1
         base == [Reply("register", 0, slug, None)
                    EXCEPT !.body = req[r].body, !.fetched = TRUE, !.dup = doors[slug] # 0]
     IN IF outcome # "ok"
        THEN /\ Respond(r, [base EXCEPT !.status = 400, !.err = "could_not_load_spec"])
             /\ UNCHANGED <<registry, doors, doorMiddlewares, heap, guarded>>
        ELSE /\ Len(heap) < MaxDoors
             /\ heap' = Append(heap, NewDoor(slug, body.siteName, reg.rateLimit, SpecText))
             /\ IF InsertThrows(slug)
                THEN /\ \E st \in {500, 0} :
                          Respond(r, [base EXCEPT !.status = st, !.err = "insert_failed",
                                                  !.door = id])
                     /\ registry' = RegistryRegister(reg)
                     /\ UNCHANGED <<doors, doorMiddlewares, guarded>>
                ELSE /\ registry' = RegistryRegister(reg)
                     /\ doors' = MapSet(doors, slug, id)
                     /\ doorMiddlewares' = MapSet(doorMiddlewares, slug, id)
                     /\ guarded' = [guarded EXCEPT ![slug] = req[r].accepted]
                     /\ Respond(r, [base EXCEPT !.status = 200, !.door = id])
  /\ UNCHANGED <<now, ticks, offGateway, adminKey, registerWindow>>

\* The error text of the 400 that answers a failed spec load, as the pieces the
\* template string is put together from: literal text and interpolated values
\* `Could not load OpenAPI spec from ${specUrl}: ${message}`
SpecLoadError(url, outcome) ==
  <<[lit |-> "Could not load OpenAPI spec from "], [url |-> url],
    [lit |-> ": "], [lit |-> outcome]>>

(* ------------------------ GET /sites, DELETE /sites ------------------- *)

\* GET /sites: requireAdmin, then registry.list()
ListSites(r, c) ==
  /\ req[r].pc = "idle"
  /\ IF ~requireAdmin(Creds[c])
     THEN Respond(r, [Reply("sites", 401, <<>>, "invalid_admin_key") EXCEPT !.cred = c])
     ELSE Respond(r, [Reply("sites", 200, <<>>, None) EXCEPT !.cred = c])
  /\ UNCHANGED <<now, ticks, offGateway, adminKey, registry, doors, doorMiddlewares, heap,
                 registerWindow, guarded>>

\* DELETE /sites/:slug: requireAdmin; 404 when doors has no such slug; else the
\* door is destroyed, dropped from both maps and its row deleted.
DeleteSite(r, slug, c) ==
  /\ req[r].pc = "idle"
  /\ IF ~requireAdmin(Creds[c])
     THEN /\ Respond(r, [Reply("delete", 401, slug, "invalid_admin_key") EXCEPT !.cred = c])
          /\ UNCHANGED <<registry, doors, doorMiddlewares, heap, guarded>>
     ELSE IF doors[slug] = 0
     THEN /\ Respond(r, [Reply("delete", 404, slug, "no_site") EXCEPT !.cred = c])
          /\ UNCHANGED <<registry, doors, doorMiddlewares, heap, guarded>>
     ELSE /\ heap' = [heap EXCEPT ![doors[slug]] = Destroyed(@)]
          /\ doors' = MapDelete(doors, slug)
          /\ doorMiddlewares' = MapDelete(doorMiddlewares, slug)
          /\ registry' = RegistryDelete(slug)
          /\ guarded' = [guarded EXCEPT ![slug] = {}]
          /\ Respond(r, [Reply("delete", 200, slug, None) EXCEPT !.cred = c, !.door = doors[slug]])
  /\ UNCHANGED <<now, ticks, offGateway, adminKey, registerWindow>>

(* ---------------------------- /:slug routing -------------------------- *)

\* The paths a client asks a door for, after the slug prefix.
Routes == {"agents.json", "capability", "other"}

\* app.use('/:slug'): 404 when doorMiddlewares has no such slug; else the door's
\* middleware runs. agents.json is answered at once; a capability route does the
\* rate check and then suspends in the upstream call, holding the door; any other
\* path is not the door's, and the gateway's default 404 answers it.
DoorRequest(r, slug, route) ==
  /\ req[r].pc = "idle"
  /\ LET id == Lookup(slug)
     IN IF id = 0
        THEN /\ Respond(r, Reply("door", 404, slug, "no_agent_door"))
             /\ UNCHANGED heap
        ELSE IF route = "agents.json"
        THEN /\ Respond(r, [Reply("door", 200, slug, None)
                              EXCEPT !.site = heap[id].site, !.door = id])
             /\ UNCHANGED heap
        ELSE IF route = "other"
        THEN /\ Respond(r, [Reply("door", 404, slug, "not_found") EXCEPT !.door = id])
             /\ UNCHANGED heap
        ELSE LET rl == checkRateLimit(heap[id].windows[ClientIp], heap[id].rateLimit)
             IN /\ heap' = [heap EXCEPT ![id].windows[ClientIp] = rl.timestamps]
                /\ IF rl.allowed
                   THEN /\ req' = [req EXCEPT ![r] = [Idle EXCEPT !.pc = "upstream",
                                                  !.kind = "capability", !.slug = slug,
                                                  !.door = id]]
                        /\ resp' = NoResp
                   ELSE Respond(r, [Reply("capability", 429, slug, "rate_limit_exceeded")
                                      EXCEPT !.door = id])
  /\ UNCHANGED <<now, ticks, offGateway, adminKey, registry, doors, doorMiddlewares, registerWindow,
                 guarded>>

\* The upstream call of a capability returns: 200 with the data, or 400 with the
\* upstream error. Nothing of the door is read or written here.
CapabilityReturns(r, upstreamOk) ==
  /\ req[r].pc = "upstream"
  /\ Respond(r, [Reply("capability", IF upstreamOk THEN 200 ELSE 400, req[r].slug,
                       IF upstreamOk THEN None ELSE "upstream_error")
                   EXCEPT !.door = req[r].door])
  /\ UNCHANGED <<now, ticks, offGateway, adminKey, registry, doors, doorMiddlewares, heap,
                 registerWindow, guarded>>

(* ------------------------- RateLimiter on its own --------------------- *)

\* this.windows.get(key)?.timestamps, [] when the key has no entry
Timestamps(key) == IF key \in DOMAIN windows THEN windows[key] ELSE <<>>

\* One checkRateLimit(key, limit) call. burst follows the calls made since the
\* key's window last started empty: it opens at a call that finds no live
\* timestamp, and closes at a call made a whole window or more after that.
RateCheck(key) ==
  LET live == Recent(Timestamps(key), now - windowMs)
      rl == checkRateLimit(Timestamps(key), callLimit)
      b == burst[key]
      got == IF rl.allowed THEN 1 ELSE 0
  IN /\ b.calls < MaxCalls
     /\ windows' = [k \in DOMAIN windows \cup {key} |->
                      IF k = key THEN rl.timestamps ELSE windows[k]]
     /\ burst' = [burst EXCEPT ![key] =
                    IF Len(live) = 0
                    THEN [open |-> TRUE, start |-> now, calls |-> 1, allowed |-> got]
                    ELSE IF b.open /\ now - b.start < windowMs
                    THEN [b EXCEPT !.calls = @ + 1, !.allowed = @ + got]
                    ELSE NoBurst]
     /\ checked' = [key |-> key, limit |-> callLimit, at |-> now,
                     before |-> Timestamps(key), after |-> rl.timestamps,
                     allowed |-> rl.allowed, remaining |-> rl.remaining,
                     resetAt |-> rl.resetAt]
     /\ UNCHANGED <<now, ticks, callLimit, offRate>>

\* RateLimiter.cleanup(): every window is trimmed, the empty ones are dropped
RateCleanup ==
  /\ windows' = cleanup(windows)
  /\ UNCHANGED <<now, ticks, callLimit, burst, checked, offRate>>

\* The clock advances by d milliseconds.
Advance(d) ==
  /\ ticks < MaxTicks
  /\ ticks' = ticks + 1
  /\ now' = now + d
  /\ UNCHANGED <<gatewayVars, rateVars, sessVars, doorVars, restartVars, fileVars, storeVars,
                 listVars,
                 attemptVars,
                 adminVars,
                 shutdownVars,
                 baseVars,
                 routeVars,
                 dispatchVars,
                 checkVars,
                 guardVars,
                 tenantVars,
                 twinVars>>

TimeSteps == {1, 59999}

(* ---------------------------- SessionManager -------------------------- *)

\* sessionTtl, in seconds
SessionTtls == {1, 2}

\* new SessionManager(ttlSeconds, capabilities)
NewManager(ttl) == [ttl |-> ttl, sessions |-> {}, destroyed |-> FALSE]

\* A validateSession that lets a session live through its expiry instant.
validateSessionLate(sessions, token) ==
  LET hit == {x \in sessions : x.token = token}
  IN IF hit = {} THEN [found |-> FALSE, sessions |-> sessions]
     ELSE IF \E x \in hit : now > x.expiresAt
     THEN [found |-> FALSE, sessions |-> sessions \ hit]
     ELSE [found |-> TRUE, sessions |-> sessions]

\* validateSession(token) on the sessions map: whether a session is returned,
\* and the map it leaves (an expired session is deleted)
validateSession(sessions, token) ==
  LET hit == {x \in sessions : x.token = token}
  IN IF hit = {} THEN [found |-> FALSE, sessions |-> sessions]
     ELSE IF \E x \in hit : now >= x.expiresAt
     THEN [found |-> FALSE, sessions |-> sessions \ hit]
     ELSE [found |-> TRUE, sessions |-> sessions]

\* An endSession that deletes nothing.
endSessionKeeps(sessions, token) == sessions

\* endSession(token): this.sessions.delete(token)
endSession(sessions, token) == {x \in sessions : x.token # token}

\* A destroy that stops the timer and keeps the map.
SessionsKept(sessions) == sessions

\* destroy(): this.sessions.clear()
SessionsCleared(sessions) == {}

\* A SessionManager is constructed with the AgentDoor that owns it: the first
\* door of a slug, or the door of the slug's next tenant once the earlier door
\* was destroyed.
SmConstruct(ttl) ==
  /\ Len(managers) < MaxManagers
  /\ \A m \in DOMAIN managers : managers[m].destroyed
  /\ managers' = Append(managers, NewManager(ttl))
  /\ smResult' = NoResult
  /\ UNCHANGED <<now, ticks, issued, offSess>>

\* createSession(siteId): a fresh uuid, expiring ttl seconds from now
SmCreate(m) ==
  /\ m \in DOMAIN managers
  /\ ~managers[m].destroyed
  /\ Len(issued) < MaxTokens
  /\ LET token == Len(issued) + 1
         expiresAt == now + managers[m].ttl * 1000
     IN /\ managers' = [managers EXCEPT ![m].sessions =
                          @ \cup {[token |-> token, expiresAt |-> expiresAt]}]
        /\ issued' = Append(issued, [by |-> m, t0 |-> now, ttl |-> managers[m].ttl,
                                     live |-> TRUE, dead |-> FALSE])
        /\ smResult' = NoResult
  /\ UNCHANGED <<now, ticks, offSess>>

\* validateSession(token), for a token issued or not
SmValidate(m, token) ==
  /\ m \in DOMAIN managers
  /\ LET v == validateSession(managers[m].sessions, token)
     IN /\ managers' = [managers EXCEPT ![m].sessions = v.sessions]
        /\ smResult' = [op |-> "validate", m |-> m, token |-> token, found |-> v.found]
  /\ UNCHANGED <<now, ticks, issued, offSess>>

\* endSession(token)
SmEnd(m, token) ==
  /\ m \in DOMAIN managers
  /\ managers' = [managers EXCEPT ![m].sessions = endSession(@, token)]
  /\ issued' = [i \in DOMAIN issued |->
                  IF i = token /\ issued[i].by = m THEN [issued[i] EXCEPT !.live = FALSE]
                  ELSE issued[i]]
  /\ smResult' = NoResult
  /\ UNCHANGED <<now, ticks, offSess>>

\* cleanup(): every session with now > expiresAt is deleted
SmCleanup(m) ==
  /\ m \in DOMAIN managers
  /\ managers' = [managers EXCEPT ![m].sessions = cleanupSessions(@)]
  /\ smResult' = NoResult
  /\ UNCHANGED <<now, ticks, issued, offSess>>

\* destroy(), as AgentDoor.destroy() calls it
SmDestroy(m) ==
  /\ m \in DOMAIN managers
  /\ ~managers[m].destroyed
  /\ managers' = [managers EXCEPT ![m].sessions = SessionsCleared(@), ![m].destroyed = TRUE]
  /\ issued' = [i \in DOMAIN issued |->
                  IF issued[i].by = m THEN [issued[i] EXCEPT !.live = FALSE, !.dead = TRUE]
                  ELSE issued[i]]
  /\ smResult' = NoResult
  /\ UNCHANGED <<now, ticks, offSess>>

SessionTimeSteps == {1, 999}

\* Time passes between two calls; the earlier call's return value is gone.
SmTick(d) ==
  /\ ticks < MaxTicks
  /\ now' = now + d
  /\ ticks' = ticks + 1
  /\ smResult' = NoResult
  /\ UNCHANGED <<managers, issued, offSess>>

(* ------------------------ one AgentDoor's routes --------------------- *)

\* The door's SessionManager, and its RateLimiter with the door's rateLimit.
TheDoor == 1

\* Authorization and X-Session-Token of a request; token 0 is an absent header.
\* A token above MaxTokens is one no createSession ever returned.
TokenInputs == 0..(MaxTokens + 1)
Headers ==
  {[scheme |-> sc, cred |-> c, xsession |-> x] :
     sc \in {None}, c \in {0}, x \in TokenInputs}
  \cup {[scheme |-> "Bearer", cred |-> c, xsession |-> 0] : c \in TokenInputs \ {0}}
  \cup {[scheme |-> "Basic", cred |-> MaxTokens + 1, xsession |-> x] : x \in TokenInputs \ {0}}

\* extractToken(req): the Bearer credential, else X-Session-Token, else null (0)
extractToken(h) == IF h.scheme = "Bearer" THEN h.cred ELSE h.xsession

\* config.capabilities: one open capability, one that requires a session
Capabilities == {[name |-> "search", requiresSession |-> FALSE],
                 [name |-> "cart.add", requiresSession |-> TRUE]}

\* What the upstream answers to a forwarded call.
UpstreamAnswers == [status : {200, 500}, body : {"b1", "b2"}]

\* A gate that lets a call through without its session.
capabilityGateOpen(allowed, requiresSession, token, found) ==
  IF ~allowed THEN "429" ELSE "call"

\* The capability handler up to its upstream call: the rate check, then, for a
\* capability with requiresSession, the token and the session.
capabilityGate(allowed, requiresSession, token, found) ==
  IF ~allowed THEN "429"
  ELSE IF requiresSession /\ token = 0 THEN "401_missing"
  ELSE IF requiresSession /\ ~found THEN "401_invalid"
  ELSE "call"

\* rateLimitResponse()
rateLimitResponse(route) ==
  [NoDoorResp EXCEPT !.route = route, !.status = 429, !.error = <<"Rate limit exceeded">>]

\* throw new Error(`Upstream ${response.status}: ${text}`), then err.message
UpstreamError(answer) == <<"Upstream", answer.status, answer.body>>

\* this.checkRate(req) on the door's limiter
checkRate(key) == checkRateLimit(Timestamps(key), callLimit)

WindowsAfter(key, rl) ==
  [k \in DOMAIN windows \cup {key} |-> IF k = key THEN rl.timestamps ELSE windows[k]]

\* Clock steps that end a session's ttl.
DoorTimeSteps == {1000}

\* POST <base>/agents/api/session
DoorCreateSession(key) ==
  /\ TheDoor \in DOMAIN managers
  /\ Len(issued) < MaxTokens
  /\ LET rl == checkRate(key)
         token == Len(issued) + 1
         ttl == managers[TheDoor].ttl
     IN /\ windows' = WindowsAfter(key, rl)
        /\ IF ~rl.allowed
           THEN /\ dresp' = rateLimitResponse("create")
                /\ UNCHANGED <<managers, issued>>
           ELSE /\ managers' = [managers EXCEPT ![TheDoor].sessions =
                                  @ \cup {[token |-> token, expiresAt |-> now + ttl * 1000]}]
                /\ issued' = Append(issued, [by |-> TheDoor, t0 |-> now, ttl |-> ttl,
                                             live |-> TRUE, dead |-> FALSE])
                /\ dresp' = [NoDoorResp EXCEPT !.route = "create", !.status = 200,
                                               !.token = token]
  /\ UNCHANGED <<upcall, offDoor>>

\* DELETE <base>/agents/api/session
DoorEndSession(key, h) ==
  /\ TheDoor \in DOMAIN managers
  /\ LET rl == checkRate(key)
         token == extractToken(h)
     IN /\ windows' = WindowsAfter(key, rl)
        /\ IF ~rl.allowed
           THEN /\ dresp' = [rateLimitResponse("end") EXCEPT !.token = token]
                /\ UNCHANGED <<managers, issued>>
           ELSE IF token = 0
           THEN /\ dresp' = [NoDoorResp EXCEPT !.route = "end", !.status = 401,
                                               !.error = <<"Missing session token">>]
                /\ UNCHANGED <<managers, issued>>
           ELSE /\ managers' = [managers EXCEPT ![TheDoor].sessions = endSession(@, token)]
                /\ issued' = [i \in DOMAIN issued |->
                                IF i = token THEN [issued[i] EXCEPT !.live = FALSE]
                                ELSE issued[i]]
                /\ dresp' = [NoDoorResp EXCEPT !.route = "end", !.status = 200,
                                               !.token = token, !.data = "ended"]
  /\ UNCHANGED <<upcall, offDoor>>

\* A capability route, up to the upstream call or the refusal.
DoorCapability(key, cap, h) ==
  /\ TheDoor \in DOMAIN managers
  /\ upcall.pc = "idle"
  /\ LET rl == checkRate(key)
         token == extractToken(h)
         v == validateSession(managers[TheDoor].sessions, token)
         gate == capabilityGate(rl.allowed, cap.requiresSession, token, v.found)
         refusal == [NoDoorResp EXCEPT !.route = cap.name, !.token = token]
     IN /\ windows' = WindowsAfter(key, rl)
        /\ managers' = IF rl.allowed /\ cap.requiresSession /\ token # 0
                       THEN [managers EXCEPT ![TheDoor].sessions = v.sessions]
                       ELSE managers
        /\ CASE gate = "429" ->
                  dresp' = [rateLimitResponse(cap.name) EXCEPT !.token = token] /\ UNCHANGED upcall
             [] gate = "401_missing" ->
                  /\ dresp' = [refusal EXCEPT !.status = 401,
                                              !.error = <<"Missing session token">>]
                  /\ UNCHANGED upcall
             [] gate = "401_invalid" ->
                  /\ dresp' = [refusal EXCEPT !.status = 401,
                                              !.error = <<"Invalid or expired session">>]
                  /\ UNCHANGED upcall
             [] gate = "call" ->
                  /\ upcall' = [pc |-> "upstream", cap |-> cap.name, allowed |-> rl.allowed,
                                needs |-> cap.requiresSession,
                                valid |-> token # 0 /\ v.found]
                  /\ dresp' = NoDoorResp
  /\ UNCHANGED <<issued, offDoor>>

\* The upstream answers: response.json() on 2xx, else the thrown error's message
\* in a 400.
DoorUpstreamReturns(answer) ==
  /\ upcall.pc = "upstream"
  /\ upcall' = NoCall
  /\ dresp' = IF answer.status = 200
              THEN [NoDoorResp EXCEPT !.route = upcall.cap, !.status = 200,
                                      !.data = answer.body, !.upstream = <<answer>>]
              ELSE [NoDoorResp EXCEPT !.route = upcall.cap, !.status = 400,
                                      !.error = UpstreamError(answer),
                                      !.upstream = <<answer>>]
  /\ UNCHANGED <<managers, issued, windows, offDoor>>

(* ----------------------- restart and rebuildDoors -------------------- *)

\* A second OpenAPI document, with one more operation than SpecText.
SpecTextB ==
  [paths |-> <<[path |-> "/items", method |-> "get", operationId |-> "listItems"],
               [path |-> "/items", method |-> "post", operationId |-> "addItem"]>>]

\* Texts an upstream can serve and a row can hold: two documents, a text that
\* is no JSON, a JSON document without paths, and a document one of whose path
\* items is null.
GoodTexts == {"specA", "specB"}
BadTexts == {"garbage", "nopaths", "nullitem"}

\* JSON.parse(text)
JSONparse(text) ==
  CASE text = "specA" -> [ok |-> TRUE, value |-> SpecText]
    [] text = "specB" -> [ok |-> TRUE, value |-> SpecTextB]
    [] text = "nopaths" -> [ok |-> TRUE, value |-> [info |-> "no paths"]]
    [] text = "nullitem" ->
         [ok |-> TRUE, value |-> [paths |-> <<[path |-> "/items", method |-> None,
                                              operationId |-> None]>>]]
    [] OTHER -> [ok |-> FALSE, value |-> <<>>]

\* !spec?.paths || typeof spec.paths !== 'object'
InvalidStructure(spec) == "paths" \notin DOMAIN spec

\* AgentDoor.fromOpenAPI throws: Object.entries of a path item that is null
CompileThrows(spec) == \E i \in 1..Len(spec.paths) : spec.paths[i].method = None

\* Whether the try block over a text reaches its end: parsed, paths present,
\* door compiled.
Loads(text) ==
  LET p == JSONparse(text)
  IN p.ok /\ ~InvalidStructure(p.value) /\ ~CompileThrows(p.value)

\* A restore that asks the upstream again.
StoredSpecRefetched(row) == served

\* rebuildDoors: the text a row's door is compiled from, row.specJson
StoredSpec(row) == row.specJson

\* A restore that gives up at the first row that fails.
RestoredUntilFailure(rows) ==
  LET bad == {i \in 1..Len(rows) : ~Loads(StoredSpec(rows[i]))}
  IN IF bad = {} THEN rows
     ELSE SubSeq(rows, 1, (CHOOSE i \in bad : \A j \in bad : i <= j) - 1)

\* rebuildDoors: the rows whose try block succeeds, in listWithSpecs() order;
\* a row whose block throws is logged and passed over
Restored(rows) == SelectSeq(rows, LAMBDA row : Loads(StoredSpec(row)))

\* The door rebuildDoors builds for a row
RebuiltDoor(row) ==
  NewDoor(row.slug, row.siteName, row.rateLimit, JSONparse(StoredSpec(row)).value)

\* The upstream starts to serve another text.
UpstreamChanges(text) ==
  /\ text # served
  /\ served' = text
  /\ UNCHANGED <<registry, doors, doorMiddlewares, heap, resp, boot, manifest, offRestart>>

\* POST /register of a new slug, from its spec fetch on: the text served is
\* parsed, checked and compiled; on success the row holds that text.
RegisterServed(slug) ==
  /\ boot.up
  /\ doors[slug] = 0 /\ ~InsertThrows(slug)
  /\ Len(heap) < MaxDoors
  /\ LET body == Bodies["api"]
         reg == [Registration(slug, body) EXCEPT !.specJson = served]
         id == Len(heap) + 1
     IN IF ~Loads(served)
        THEN /\ resp' = [Reply("register", 400, slug, "could_not_load_spec")
                           EXCEPT !.fetched = TRUE]
             /\ UNCHANGED <<registry, doors, doorMiddlewares, heap, manifest>>
        ELSE /\ heap' = Append(heap, NewDoor(slug, body.siteName, reg.rateLimit,
                                             JSONparse(served).value))
             /\ registry' = Append(registry, reg)
             /\ doors' = MapSet(doors, slug, id)
             /\ doorMiddlewares' = MapSet(doorMiddlewares, slug, id)
             /\ manifest' = [manifest EXCEPT ![slug] = heap'[id].capabilities]
             /\ resp' = [Reply("register", 200, slug, None)
                           EXCEPT !.fetched = TRUE, !.door = id]
  /\ UNCHANGED <<served, boot, offRestart>>

\* GET /<slug>/.well-known/agents.json; the body field carries the manifest's
\* capabilities
AgentsJson(slug) ==
  /\ boot.up
  /\ LET id == Lookup(slug)
     IN resp' = IF id = 0 THEN Reply("agents.json", 404, slug, "no_agent_door")
                ELSE [Reply("agents.json", 200, slug, None)
                        EXCEPT !.body = heap[id].capabilities, !.door = id]
  /\ UNCHANGED <<registry, doors, doorMiddlewares, heap, restartVars, offRestart>>

\* shutdown(): every door destroyed, both maps cleared, the process exits and
\* its objects are gone.
Shutdown ==
  /\ boot.up
  /\ boot.n < MaxBoots
  /\ doors' = [s \in AllSlugs |-> 0]
  /\ doorMiddlewares' = [s \in AllSlugs |-> 0]
  /\ heap' = <<>>
  /\ boot' = [boot EXCEPT !.up = FALSE]
  /\ resp' = NoResp
  /\ UNCHANGED <<registry, served, manifest, offRestart>>

\* While the gateway is down, a stored spec_json is replaced by a text that
\* does not load.
RowDamaged(i, text) ==
  /\ ~boot.up
  /\ i \in 1..Len(registry)
  /\ registry[i].specJson \in GoodTexts
  /\ registry' = [registry EXCEPT ![i].specJson = text]
  /\ manifest' = [manifest EXCEPT ![registry[i].slug] = Void]
  /\ UNCHANGED <<doors, doorMiddlewares, heap, resp, served, boot, offRestart>>

\* createApp(): rebuildDoors over registry.listWithSpecs(), then the server
\* listens.
Startup ==
  /\ ~boot.up
  /\ LET rows == Restored(registry)
         IdOf(slug) == IF \E i \in 1..Len(rows) : rows[i].slug = slug
                       THEN CHOOSE i \in 1..Len(rows) : rows[i].slug = slug
                       ELSE 0
     IN /\ heap' = [i \in 1..Len(rows) |-> RebuiltDoor(rows[i])]
        /\ doors' = [s \in AllSlugs |-> IdOf(s)]
        /\ doorMiddlewares' = [s \in AllSlugs |-> IdOf(s)]
  /\ boot' = [up |-> TRUE, n |-> boot.n + 1]
  /\ resp' = NoResp
  /\ UNCHANGED <<registry, served, manifest, offRestart>>

(* ------------------------- the file Registry ------------------------ *)

\* JSON.stringify([...this.sites.values()], null, 2)
Stringify(sites) == [kind |-> "json", entries |-> sites]

\* A load without its try/catch: the constructor throws on a text that is no JSON.
loadUnguarded(raw) ==
  IF raw.kind = "json" THEN [ok |-> TRUE, sites |-> raw.entries]
  ELSE IF raw.kind = "absent" THEN [ok |-> TRUE, sites |-> {}]
  ELSE [ok |-> FALSE, sites |-> {}]

\* load(): the entries of the file when it exists and parses; a file that does
\* not parse is caught and the registry starts fresh
load(raw) ==
  IF raw.kind = "json" THEN [ok |-> TRUE, sites |-> raw.entries]
  ELSE [ok |-> TRUE, sites |-> {}]

\* new Registry(filePath)
FileOpen ==
  /\ ~freg.up
  /\ LET l == load(disk)
     IN /\ freg' = [up |-> l.ok, sites |-> l.sites, pc |-> "idle"]
        /\ fresult' = [fresult EXCEPT !.op = "open", !.ok = l.ok, !.raw = disk]
  /\ UNCHANGED <<disk, offFile>>

\* register(reg) up to the start of persist(): the map is set and writeFileSync
\* has opened the file, which truncates it
FileRegister(slug) ==
  /\ freg.up /\ freg.pc = "idle"
  /\ freg' = [freg EXCEPT !.sites = @ \cup {slug}, !.pc = "writing"]
  /\ disk' = Torn
  /\ fresult' = [op |-> "register", ok |-> TRUE, raw |-> disk, mutated |-> TRUE,
                 before |-> freg.sites, after |-> freg.sites \cup {slug}]
  /\ UNCHANGED offFile

\* delete(slug) of a slug that is there, up to the start of persist()
FileDelete(slug) ==
  /\ freg.up /\ freg.pc = "idle"
  /\ slug \in freg.sites
  /\ freg' = [freg EXCEPT !.sites = @ \ {slug}, !.pc = "writing"]
  /\ disk' = Torn
  /\ fresult' = [op |-> "delete", ok |-> TRUE, raw |-> disk, mutated |-> TRUE,
                 before |-> freg.sites, after |-> freg.sites \ {slug}]
  /\ UNCHANGED offFile

\* writeFileSync writes the text and returns
FileWritten ==
  /\ freg.up /\ freg.pc = "writing"
  /\ disk' = Stringify(freg.sites)
  /\ freg' = [freg EXCEPT !.pc = "idle"]
  /\ UNCHANGED <<fresult, offFile>>

\* The process dies: at rest, or inside writeFileSync.
FileCrash ==
  /\ freg.up
  /\ freg' = Closed
  /\ fresult' = [fresult EXCEPT !.op = "crash"]
  /\ UNCHANGED <<disk, offFile>>

\* While no process holds it, the file is overwritten with a text that is no JSON.
FileGarbled ==
  /\ ~freg.up
  /\ disk.kind # "garbage"
  /\ disk' = Garbage
  /\ fresult' = NoFileResult
  /\ UNCHANGED <<freg, offFile>>

(* ------------------------ the SQLite Registry ----------------------- *)

\* Date.prototype.toISOString(): the instant as text, seconds and milliseconds
toISOString(t) == <<"iso", t \div 1000, t % 1000>>

\* new Date(text) of such a text
NewDate(iso) == iso[2] * 1000 + iso[3]

\* A rowToRegistration that hands the column's NULL on.
rowToRegistrationRaw(row) ==
  [slug |-> row.slug, siteName |-> row.site_name, siteUrl |-> row.site_url,
   apiUrl |-> row.api_url, openApiUrl |-> row.open_api_url,
   rateLimit |-> row.rate_limit, createdAt |-> NewDate(row.created_at)]

\* rowToRegistration(row)
rowToRegistration(row) ==
  [slug |-> row.slug, siteName |-> row.site_name, siteUrl |-> row.site_url,
   apiUrl |-> row.api_url,
   openApiUrl |-> IF row.open_api_url = Null THEN Undefined ELSE row.open_api_url,
   rateLimit |-> row.rate_limit, createdAt |-> NewDate(row.created_at)]

\* The row register(reg, specJson) binds to the INSERT
InsertedRow(reg, specJson) ==
  [slug |-> reg.slug, site_name |-> reg.siteName, site_url |-> reg.siteUrl,
   api_url |-> reg.apiUrl,
   open_api_url |-> IF reg.openApiUrl = Undefined THEN Null ELSE reg.openApiUrl,
   rate_limit |-> reg.rateLimit, spec_json |-> specJson,
   created_at |-> toISOString(reg.createdAt)]

\* The registration the server hands to register() for a request body: with
\* or without an openApiUrl, created now.
StoreReg(slug, b) ==
  [slug |-> slug, siteName |-> Bodies[b].siteName, siteUrl |-> Bodies[b].siteUrl,
   apiUrl |-> resolvedApiUrl(Bodies[b]),
   openApiUrl |-> IF Bodies[b].openApiUrl = NoUrl THEN Undefined ELSE Bodies[b].openApiUrl,
   rateLimit |-> Bodies[b].rateLimit, createdAt |-> now]

\* register(reg, specJson): the INSERT; on a slug that has a row it throws and
\* nothing is written
StoreRegister(slug, b) ==
  /\ LET reg == StoreReg(slug, b) IN
     IF table[reg.slug] # NoRow
     THEN /\ sresult' = [NoStoreResult EXCEPT !.op = "register_threw", !.slug = reg.slug,
                                              !.value = <<reg>>]
          /\ UNCHANGED <<table, written>>
     ELSE /\ table' = [table EXCEPT ![reg.slug] = <<InsertedRow(reg, "specA")>>]
          /\ written' = [written EXCEPT ![reg.slug] = <<reg>>]
          /\ sresult' = [NoStoreResult EXCEPT !.op = "register", !.slug = reg.slug,
                                              !.value = <<reg>>]
  /\ UNCHANGED offStore

\* get(slug)
StoreGet(slug) ==
  /\ sresult' = [op |-> "get", slug |-> slug,
                 value |-> IF table[slug] = NoRow THEN NoRow
                           ELSE <<rowToRegistration(table[slug][1])>>,
                 reopened |-> sresult.reopened]
  /\ UNCHANGED <<table, written, offStore>>

\* delete(slug)
StoreDelete(slug) ==
  /\ table[slug] # NoRow
  /\ table' = [table EXCEPT ![slug] = NoRow]
  /\ written' = [written EXCEPT ![slug] = NoRow]
  /\ sresult' = [NoStoreResult EXCEPT !.op = "delete", !.slug = slug]
  /\ UNCHANGED offStore

\* close(), then new Registry(dbPath) on the same file: the table is as it was
StoreReopen ==
  /\ ~sresult.reopened
  /\ sresult' = [NoStoreResult EXCEPT !.op = "reopen", !.reopened = TRUE]
  /\ UNCHANGED <<table, written, offStore>>


(* -------------------- the Map of a file Registry -------------------- *)

\* register calls a Registry is given
MaxWrites == 3

\* Map.prototype.set: the value of a key the Map holds is replaced where it
\* stands, a new key goes last.
SitesSet(map, entry) ==
  IF \E i \in 1..Len(map) : map[i].slug = entry.slug
  THEN [i \in 1..Len(map) |-> IF map[i].slug = entry.slug THEN entry ELSE map[i]]
  ELSE Append(map, entry)


\* list(): [...this.sites.values()]
list == sitesMap

\* register(reg) with reg.createdAt = new Date(); nth is the ordinal of the call
SitesRegister(slug) ==
  /\ writes < MaxWrites
  /\ writes' = writes + 1
  /\ sitesMap' = SitesSet(sitesMap, [slug |-> slug, createdAt |-> now, nth |-> writes + 1])
  /\ UNCHANGED offList

\* delete(slug)
SitesDelete(slug) ==
  /\ \E i \in 1..Len(sitesMap) : sitesMap[i].slug = slug
  /\ sitesMap' = SelectSeq(sitesMap, LAMBDA e : e.slug # slug)
  /\ UNCHANGED <<writes, offList>>


(* ------------- the admin endpoints behind the admin limiter ------------- *)

ADMIN_RATE_LIMIT == 20
ADMIN_RATE_WINDOW_MS == 60000

\* admin requests the limiter lets through
MaxAdminCalls == 21

RESERVED_SLUGS ==
  {<<"r","e","g","i","s","t","e","r">>, <<"s","i","t","e","s">>, <<"h","e","a","l","t","h">>,
   <<"a","d","m","i","n">>, <<"a","p","i">>, <<"s","t","a","t","i","c">>,
   <<"a","s","s","e","t","s">>, <<"f","a","v","i","c","o","n",".","i","c","o">>,
   <<"r","o","b","o","t","s",".","t","x","t">>,
   <<".","w","e","l","l","-","k","n","o","w","n">>}

\* /^[a-z0-9][a-z0-9-]{0,38}[a-z0-9]$/.test(slug)
StrictSlugPattern(slug) ==
  /\ Len(slug) >= 2
  /\ Len(slug) <= 40
  /\ \A i \in 1..Len(slug) : slug[i] \in SlugChars
  /\ slug[1] # "-"
  /\ slug[Len(slug)] # "-"

\* while (timestamps.length > 0 && timestamps[0] <= cutoff) timestamps.shift()
RECURSIVE ShiftExpired(_, _)
ShiftExpired(ts, cutoff) ==
  IF Len(ts) > 0 /\ ts[1] <= cutoff THEN ShiftExpired(Tail(ts), cutoff) ELSE ts

\* A checkAdminRate that refuses only above the limit.
checkAdminRateAbove(ip) ==
  LET timestamps == ShiftExpired(adminRateWindows[ip], now - ADMIN_RATE_WINDOW_MS)
  IN IF Len(timestamps) > ADMIN_RATE_LIMIT
     THEN [allowed |-> FALSE, timestamps |-> timestamps]
     ELSE [allowed |-> TRUE, timestamps |-> Append(timestamps, now)]

\* checkAdminRate(ip): its result, and the window it leaves behind
checkAdminRate(ip) ==
  LET timestamps == ShiftExpired(adminRateWindows[ip], now - ADMIN_RATE_WINDOW_MS)
  IN IF Len(timestamps) >= ADMIN_RATE_LIMIT
     THEN [allowed |-> FALSE, timestamps |-> timestamps]
     ELSE [allowed |-> TRUE, timestamps |-> Append(timestamps, now)]

\* x-api-key ?? authorization without its Bearer prefix
ProvidedApiKey(h) ==
  IF h.xApiKey # None THEN h.xApiKey
  ELSE IF h.authorization.scheme = "Bearer" THEN h.authorization.rest
  ELSE h.authorization.rest

\* requireAdminKey: the limiter first, then the key; status 0 stands for next()
requireAdminKey(h, allowed) ==
  IF ~allowed THEN [status |-> 429, err |-> "rate_limit_exceeded"]
  ELSE IF adminKey = None THEN [status |-> 503, err |-> "admin_key_not_configured"]
  ELSE IF ProvidedApiKey(h) = None \/ ProvidedApiKey(h) # adminKey
    THEN [status |-> 401, err |-> "invalid_api_key"]
  ELSE [status |-> 0, err |-> None]

\* What the limiter does to its own state on a request of the client.
AdminCounted(rate) ==
  /\ adminRateWindows' = [adminRateWindows EXCEPT ![ClientIp] = rate.timestamps]
  /\ adminPassed' = IF rate.allowed THEN Append(adminPassed, now) ELSE adminPassed
  /\ rate.allowed => Len(adminPassed) < MaxAdminCalls

\* POST /register behind requireAdminKey: the checks before the first await
AdminRegister(b, slug, c) ==
  /\ req[1].pc = "idle"
  /\ LET rate == checkAdminRate(ClientIp)
         auth == requireAdminKey(Creds[c], rate.allowed)
         body == Bodies[b]
         answer == IF auth.status # 0 THEN auth
                   ELSE IF body.siteName = None \/ body.siteUrl = NoUrl
                     THEN [status |-> 400, err |-> "missing_fields"]
                   ELSE IF body.apiUrl = NoUrl /\ body.openApiUrl = NoUrl
                     THEN [status |-> 400, err |-> "provide_api_url"]
                   ELSE IF ~StrictSlugPattern(slug) THEN [status |-> 400, err |-> "bad_slug"]
                   ELSE IF slug \in RESERVED_SLUGS THEN [status |-> 400, err |-> "reserved"]
                   ELSE IF doors[slug] # 0 THEN [status |-> 409, err |-> "already_registered"]
                   ELSE [status |-> 0, err |-> None]
     IN /\ AdminCounted(rate)
        /\ IF answer.status = 0
           THEN /\ req' = [req EXCEPT ![1] = [Idle EXCEPT !.pc = "building", !.kind = "register",
                                                         !.slug = slug, !.body = b]]
                /\ resp' = NoResp
           ELSE Respond(1, [Reply("register", answer.status, slug, answer.err)
                              EXCEPT !.body = b, !.cred = c])
  /\ UNCHANGED <<adminKey, registry, doors, doorMiddlewares, heap, registerWindow, guarded>>
  /\ UNCHANGED offAdmin

\* validateExternalUrl and buildDoor return: 400 when one of them threw, else
\* registry.register(reg), doors.set(slug, door) and 201
AdminRegisterSettles(outcome) ==
  /\ req[1].pc = "building"
  /\ LET slug == req[1].slug
         body == Bodies[req[1].body]
         reg == Registration(slug, body)
         base == [Reply("register", 400, slug, outcome) EXCEPT !.body = req[1].body]
     IN IF outcome # "ok"
        THEN /\ Respond(1, base)
             /\ UNCHANGED <<registry, doors, heap>>
        ELSE /\ Len(heap) < MaxDoors
             /\ heap' = Append(heap, NewDoor(slug, body.siteName, reg.rateLimit, SpecText))
             /\ registry' = Append(RegistryDelete(slug), reg)
             /\ doors' = MapSet(doors, slug, Len(heap) + 1)
             /\ Respond(1, [base EXCEPT !.status = 201, !.err = None, !.door = Len(heap) + 1])
  /\ UNCHANGED <<adminKey, doorMiddlewares, registerWindow, guarded, adminVars, offAdmin>>

\* GET /sites behind requireAdminKey
AdminListSites(c) ==
  /\ LET rate == checkAdminRate(ClientIp)
         auth == requireAdminKey(Creds[c], rate.allowed)
     IN /\ AdminCounted(rate)
        /\ resp' = [Reply("sites", IF auth.status # 0 THEN auth.status ELSE 200, <<>>, auth.err)
                      EXCEPT !.cred = c]
  /\ UNCHANGED <<adminKey, registry, doors, doorMiddlewares, heap, registerWindow, req,
                 guarded, offAdmin>>

\* DELETE /sites/:slug behind requireAdminKey
AdminDeleteSite(slug, c) ==
  /\ LET rate == checkAdminRate(ClientIp)
         auth == requireAdminKey(Creds[c], rate.allowed)
     IN /\ AdminCounted(rate)
        /\ IF auth.status # 0
           THEN /\ resp' = [Reply("delete", auth.status, slug, auth.err) EXCEPT !.cred = c]
                /\ UNCHANGED <<registry, doors, heap>>
           ELSE IF doors[slug] = 0
           THEN /\ resp' = [Reply("delete", 404, slug, "not_found") EXCEPT !.cred = c]
                /\ UNCHANGED <<registry, doors, heap>>
           ELSE /\ heap' = [heap EXCEPT ![doors[slug]] = Destroyed(@)]
                /\ doors' = MapDelete(doors, slug)
                /\ registry' = RegistryDelete(slug)
                /\ resp' = [Reply("delete", 200, slug, None)
                              EXCEPT !.cred = c, !.door = doors[slug]]
  /\ UNCHANGED <<adminKey, doorMiddlewares, registerWindow, req, guarded, offAdmin>>

AdminTimeSteps == {60000}

\* clock advances while the admin endpoints are watched
MaxAdminTicks == 1


(* ------------------------ the server process ------------------------ *)

\* the drain the specification allows for, in ms
DrainDeadline == 10000

InFlight == {c \in 1..MaxConns : conns[c] = "serving"}

\* A client connects and its request is being served.
Accept(c) ==
  /\ proc.exit = Running /\ proc.listening
  /\ conns[c] = "none"
  /\ conns' = [conns EXCEPT ![c] = "serving"]
  /\ UNCHANGED <<proc, offShutdown>>

\* The response is sent and the connection ends.
Finish(c) ==
  /\ proc.exit = Running
  /\ conns[c] = "serving"
  /\ conns' = [conns EXCEPT ![c] = "ended"]
  /\ UNCHANGED <<proc, offShutdown>>

\* shutdown(), the SIGTERM and SIGINT handler: every door destroyed, doors and
\* doorMiddlewares cleared, the registry closed, then server.close(callback)
shutdown ==
  [proc EXCEPT !.signalledAt = now, !.destroyed = TRUE, !.registryClosed = TRUE,
               !.listening = FALSE]

\* SIGTERM or SIGINT reaches the process.
Signal ==
  /\ proc.exit = Running /\ proc.signalledAt = Running
  /\ proc' = shutdown
  /\ UNCHANGED <<conns, offShutdown>>

\* The callback of server.close, run once the last connection has ended:
\* process.exit(0)
ServerClosed ==
  /\ proc.exit = Running /\ ~proc.listening
  /\ InFlight = {}
  /\ proc' = [proc EXCEPT !.exit = 0, !.destroyed = TRUE, !.registryClosed = TRUE]
  /\ UNCHANGED <<conns, offShutdown>>

ShutdownTimeSteps == {4000, 6001}


(* ------------------------- gateway URLs ------------------------- *)

\* The headers of a request that bear on its host: Host, X-Forwarded-Host,
\* X-Forwarded-Proto (None: not sent)
SiteRequests ==
  [host : {None, "gateway.example", "evil.example"},
   xForwardedHost : {None, "evil.example"},
   xForwardedProto : {None, "https"}]

\* gatewayBase(req) with 'trust proxy' off: req.protocol is the protocol of the
\* connection, req.get('host') the Host header as sent
gatewayBase(h) ==
  [proto |-> "http", host |-> IF h.host = None THEN "localhost" ELSE h.host]

\* The data of GET /sites: per registration its gateway_url under gatewayBase(req)
SiteUrls(h) ==
  [i \in 1..Len(registry) |->
     [slug |-> registry[i].slug,
      gateway_url |-> <<gatewayBase(h), registry[i].slug>>]]

\* GET /sites with headers h, the admin endpoints open
SitesAsked(h) ==
  /\ req[1].pc = "idle"
  /\ requireAdmin(Creds["anon"])
  /\ Respond(1, Reply("sites", 200, <<>>, None))
  /\ answered' = Append(IF Len(answered) = 2 THEN Tail(answered) ELSE answered,
                        [headers |-> h, rows |-> registry, urls |-> SiteUrls(h)])
  /\ UNCHANGED <<now, ticks, adminKey, registry, doors, doorMiddlewares, heap,
                 registerWindow, guarded, offBase>>


(* ------------------------- /:slug, by its URL ------------------------- *)

\* What follows /<slug> in a request URL, as its characters (a word that
\* holds no character of a slug stands as one piece).
Rests ==
  {<<>>, <<"/">>, <<"/", "agents.json">>, <<"/", "x">>,
   <<"/", "s", "1">>, <<"/", "s", "1", "/", "x">>, <<"/", "s", "1", "x">>}

StartsWith(s, p) == Len(s) >= Len(p) /\ SubSeq(s, 1, Len(p)) = p

\* app.use('/:slug', handler): inside the handler req.url is the URL without
\* the mount path that matched, "/" when nothing is left
MountPath(url, slug) ==
  LET rest == SubSeq(url, Len(slug) + 2, Len(url))
  IN IF rest = <<>> THEN <<"/">> ELSE rest

\* original.replace(pattern, '') || '/', pattern = new RegExp(`^/${slug}`)
StripSlug(original, slug) ==
  LET stripped == IF StartsWith(original, <<"/">> \o slug)
                  THEN SubSeq(original, Len(slug) + 2, Len(original))
                  ELSE original
  IN IF stripped = <<>> THEN <<"/">> ELSE stripped

\* A request for /<slug><rest>: 404 without a door; else the door's middleware
\* runs on the stripped URL, and when it declines req.url is set back and the
\* request falls through, Express putting the mount path back in front.
Routed(slug, rest) ==
  /\ LET url == <<"/">> \o slug \o rest
         original == MountPath(url, slug)
         seen == StripSlug(original, slug)
     IN IF Lookup(slug) = 0
        THEN routed' = [NoRouted EXCEPT !.slug = slug, !.original = url, !.status = 404]
        ELSE IF seen = <<"/", "agents.json">>
        THEN routed' = [NoRouted EXCEPT !.slug = slug, !.original = url, !.status = 200,
                                        !.seen = seen]
        ELSE routed' = [NoRouted EXCEPT !.slug = slug, !.original = url, !.status = 404,
                                        !.seen = seen,
                                        !.after = IF rest = <<>> THEN url
                                                  ELSE <<"/">> \o slug \o original]
  /\ UNCHANGED offRoute


(* ----------------------- AgentDoor: dispatch ----------------------- *)

\* capabilities of a door under construction
MaxCaps == 2

\* `${this.basePath}` and `${this.basePath}/agents/api`, as path segments
basePath == <<".well-known">>
apiBase == basePath \o <<"agents", "api">>

\* The capability definitions a config may list: a name and a method.
CapPool ==
  {[name |-> <<"session">>, method |-> "POST"],
   [name |-> <<"session">>, method |-> "DELETE"],
   [name |-> <<"search">>, method |-> "GET"],
   [name |-> <<"cart", "add">>, method |-> "POST"],
   [name |-> <<"detail">>, method |-> "GET"]}

CapTables == UNION {[1..n -> CapPool] : n \in 0..MaxCaps}

\* capabilityRoute(cap, apiBase); cap.name is held split at its dots
capabilityRoute(cap) ==
  IF cap.name = <<"detail">> THEN apiBase \o <<"detail", ":id">>
  ELSE apiBase \o cap.name

\* matchRoute(pattern, path) # null
matchRoute(pattern, path) ==
  /\ Len(pattern) = Len(path)
  /\ \A i \in 1..Len(pattern) : pattern[i] = ":id" \/ pattern[i] = path[i]

\* buildRoutes() of a door without audit
buildRoutes(caps) ==
  <<[method |-> "GET", pattern |-> basePath \o <<"agents.txt">>, kind |-> "agents.txt", cap |-> 0],
    [method |-> "GET", pattern |-> basePath \o <<"agents.json">>, kind |-> "agents.json", cap |-> 0],
    [method |-> "POST", pattern |-> apiBase \o <<"session">>, kind |-> "session.create", cap |-> 0],
    [method |-> "DELETE", pattern |-> apiBase \o <<"session">>, kind |-> "session.end", cap |-> 0]>>
  \o [i \in 1..Len(caps) |->
        [method |-> caps[i].method, pattern |-> capabilityRoute(caps[i]),
         kind |-> "capability", cap |-> i]]

RECURSIVE dispatchFrom(_, _, _)
dispatchFrom(i, method, path) ==
  IF i > Len(routes) THEN 0
  ELSE IF matchRoute(routes[i].pattern, path) /\ routes[i].method = method THEN i
  ELSE dispatchFrom(i + 1, method, path)

RECURSIVE dispatchBack(_, _, _)
dispatchBack(i, method, path) ==
  IF i < 1 THEN 0
  ELSE IF matchRoute(routes[i].pattern, path) /\ routes[i].method = method THEN i
  ELSE dispatchBack(i - 1, method, path)

\* A dispatch in which the route pushed last wins.
dispatchLast(method, path) == dispatchBack(Len(routes), method, path)

\* dispatch(req): the index of the route whose handler runs, 0 for null
dispatch(method, path) == dispatchFrom(1, method, path)

DispatchPaths ==
  {basePath \o <<"agents.txt">>, basePath \o <<"agents.json">>,
   apiBase \o <<"session">>, apiBase \o <<"search">>, apiBase \o <<"cart", "add">>,
   apiBase \o <<"detail", "42">>, <<"index.html">>}

\* new AgentDoor(config): this.routes = this.buildRoutes()
Construct(caps) ==
  /\ routes = <<>>
  /\ routes' = buildRoutes(caps)
  /\ dispatched' = NoDispatch
  /\ UNCHANGED offDispatch

\* middleware(): OPTIONS is answered 204; else dispatch, and next() on null
\* (status 0); a route's handler answers for the request (status 200 here)
Dispatch(method, path) ==
  /\ routes # <<>>
  /\ dispatched' =
       IF method = "OPTIONS"
       THEN [method |-> method, path |-> path, route |-> 0, status |-> 204]
       ELSE [method |-> method, path |-> path, route |-> dispatch(method, path),
             status |-> IF dispatch(method, path) = 0 THEN 0 ELSE 200]
  /\ UNCHANGED <<routes, offDispatch>>


(* ----------------------------- URL guards ----------------------------- *)

\* resolveAndValidateUrl(raw) of the gateway
ResolveAndValidate(u, dns) ==
  /\ urlChecked' = [by |-> "server", url |-> u, dns |-> dns,
                  ok |-> resolveAndValidateUrl(u, dns), looked |-> resolves(u)]
  /\ UNCHANGED <<probe, offGuard>>

\* validateExternalUrl(rawUrl) of url-guard.ts
ValidateExternal(u, dns) ==
  /\ urlChecked' = [by |-> "url-guard", url |-> u, dns |-> dns,
                  ok |-> validateExternalUrl(u, dns) = "ok",
                  looked |-> u # Unparsable /\ u.scheme \in {"http", "https"} /\ u.host.t = "name"]
  /\ UNCHANGED <<probe, offGuard>>

\* isPrivateIP(ip) of the gateway
ProbeIsPrivateIP(a) ==
  /\ probe' = [by |-> "server", addr |-> a, blocked |-> isPrivateIP(a)]
  /\ UNCHANGED <<urlChecked, offGuard>>

\* isPrivate(ip) of url-guard.ts
ProbeIsPrivate(a) ==
  /\ probe' = [by |-> "url-guard", addr |-> a, blocked |-> isPrivate(a)]
  /\ UNCHANGED <<urlChecked, offGuard>>


(* --------------------------- two tenants ---------------------------- *)

\* A constructor that hands every door the RateLimiter built first.
NewRateLimiterShared(limiters) == 1

\* this.rateLimiter = new RateLimiter(): the object the door refers to
NewRateLimiter(limiters) == Len(limiters) + 1

\* What a client reaches of a tenant: its sessions, its rate-limit windows and
\* its capability table.
TenantView(t) ==
  LET d == tenants.door[t]
  IN [sessions |-> tenants.sessions[d.sm], windows |-> tenants.limiters[d.rl],
      capabilities |-> d.capabilities]

\* this.checkRate(req) of tenant t for the client
TenantRate(t) ==
  checkRateLimit(tenants.limiters[tenants.door[t].rl], tenants.door[t].rateLimit)

\* POST /register installs a door for t: new AgentDoor(config) builds its own
\* SessionManager and RateLimiter
TenantInstall(t, caps) ==
  /\ ~tenants.door[t].up
  /\ Len(tenants.sessions) < MaxTenantDoors
  /\ LET sm == Len(tenants.sessions) + 1
         rl == NewRateLimiter(tenants.limiters)
     IN tenants' = [tenants EXCEPT
                      !.door[t] = [up |-> TRUE, sm |-> sm, rl |-> rl, rateLimit |-> MaxLimit,
                                   capabilities |-> caps],
                      !.sessions = Append(@, {}),
                      !.limiters = IF rl > Len(@) THEN Append(@, <<>>) ELSE @]
  /\ tres' = [NoTres EXCEPT !.tenant = t, !.op = "install", !.status = 200]
  /\ UNCHANGED offTenant

\* POST /<t>/.well-known/agents/api/session
TenantCreateSession(t) ==
  /\ tenants.door[t].up
  /\ tenants.issued < MaxTenantTokens
  /\ LET d == tenants.door[t]
         rl == TenantRate(t)
         token == tenants.issued + 1
     IN IF ~rl.allowed
        THEN /\ tenants' = [tenants EXCEPT !.limiters[d.rl] = rl.timestamps]
             /\ tres' = [NoTres EXCEPT !.tenant = t, !.op = "create", !.status = 429]
        ELSE /\ tenants' = [tenants EXCEPT
                              !.limiters[d.rl] = rl.timestamps,
                              !.sessions[d.sm] =
                                 @ \cup {[token |-> token,
                                           expiresAt |-> now + DefaultSessionTtl * 1000]},
                              !.issued = token]
             /\ tres' = [tenant |-> t, op |-> "create", status |-> 200, token |-> token]
  /\ UNCHANGED offTenant

\* DELETE /<t>/.well-known/agents/api/session with a token
TenantEndSession(t, token) ==
  /\ tenants.door[t].up
  /\ LET d == tenants.door[t]
         rl == TenantRate(t)
     IN IF ~rl.allowed
        THEN /\ tenants' = [tenants EXCEPT !.limiters[d.rl] = rl.timestamps]
             /\ tres' = [tenant |-> t, op |-> "end", status |-> 429, token |-> token]
        ELSE /\ tenants' = [tenants EXCEPT
                              !.limiters[d.rl] = rl.timestamps,
                              !.sessions[d.sm] = endSession(@, token)]
             /\ tres' = [tenant |-> t, op |-> "end", status |-> 200, token |-> token]
  /\ UNCHANGED offTenant

\* A call of a capability of t that requires a session, up to its upstream call
TenantCapability(t, token) ==
  /\ tenants.door[t].up
  /\ LET d == tenants.door[t]
         rl == TenantRate(t)
         v == validateSession(tenants.sessions[d.sm], token)
         gate == capabilityGate(rl.allowed, TRUE, token, v.found)
     IN /\ tenants' = [tenants EXCEPT
                         !.limiters[d.rl] = rl.timestamps,
                         !.sessions[d.sm] = IF rl.allowed /\ token # 0 THEN v.sessions ELSE @]
        /\ tres' = [tenant |-> t, op |-> "capability", token |-> token,
                    status |-> IF gate = "429" THEN 429 ELSE IF gate = "call" THEN 200 ELSE 401]
  /\ UNCHANGED offTenant

\* DELETE /sites/<t>: door.destroy() clears the door's sessions and windows, and
\* the door leaves the maps
TenantDelete(t) ==
  /\ tenants.door[t].up
  /\ LET d == tenants.door[t]
     IN tenants' = [tenants EXCEPT
                      !.sessions[d.sm] = SessionsCleared(@),
                      !.limiters[d.rl] = <<>>,
                      !.door[t].up = FALSE]
  /\ tres' = [NoTres EXCEPT !.tenant = t, !.op = "delete", !.status = 200]
  /\ UNCHANGED offTenant


(* ------------------- compaction beside the same calls ------------------ *)

\* this.windows.get(key)?.timestamps of a windows map, [] for a key without entry
EntryOf(w, key) == IF key \in DOMAIN w THEN w[key] ELSE <<>>

\* this.windows.set(key, entry)
WithEntry(w, key, ts) == [k \in DOMAIN w \cup {key} |-> IF k = key THEN ts ELSE w[k]]

\* whether the two copies hold different data
TwinDiffer ==
  \/ EntryOf(twin.a.windows, ClientIp) # EntryOf(twin.b.windows, ClientIp)
  \/ twin.a.sessions # twin.b.sessions
  \/ twin.a.reg # twin.b.reg

TwinTimeSteps == {1, 1000, 59999}

\* The run is one of a RateLimiter, of a SessionManager or of registerWindow.
TwinStart(kind) ==
  /\ twin.kind = None
  /\ twin' = [twin EXCEPT !.kind = kind]
  /\ twinRes' = NoTwinRes
  /\ UNCHANGED <<now, ticks, offTwin>>

\* checkRateLimit(key, limit), on both copies
TwinCheckRateLimit(limit) ==
  /\ twin.kind = "rate"
  /\ LET ra == checkRateLimit(EntryOf(twin.a.windows, ClientIp), limit)
         rb == checkRateLimit(EntryOf(twin.b.windows, ClientIp), limit)
     IN /\ twin' = [twin EXCEPT !.a.windows = WithEntry(@, ClientIp, ra.timestamps),
                                !.b.windows = WithEntry(@, ClientIp, rb.timestamps)]
        /\ twinRes' = [op |-> "checkRateLimit",
                       compacted |-> <<ra.allowed, ra.remaining, ra.resetAt>>,
                       plain |-> <<rb.allowed, rb.remaining, rb.resetAt>>,
                       differed |-> TwinDiffer]
  /\ UNCHANGED <<now, ticks, offTwin>>

\* RateLimiter.cleanup() runs, on copy a
TwinCleanup ==
  /\ twin.kind = "rate"
  /\ twin' = [twin EXCEPT !.a.windows = cleanup(@)]
  /\ twinRes' = NoTwinRes
  /\ UNCHANGED <<now, ticks, offTwin>>

\* createSession(), on both copies
TwinCreateSession(ttl) ==
  /\ twin.kind = "session"
  /\ twin.issued < MaxTokens
  /\ LET s == [token |-> twin.issued + 1, expiresAt |-> now + ttl * 1000]
     IN twin' = [twin EXCEPT !.a.sessions = @ \cup {s}, !.b.sessions = @ \cup {s},
                             !.issued = @ + 1]
  /\ twinRes' = NoTwinRes
  /\ UNCHANGED <<now, ticks, offTwin>>

\* validateSession(token), on both copies
TwinValidateSession(token) ==
  /\ twin.kind = "session"
  /\ LET va == validateSession(twin.a.sessions, token)
         vb == validateSession(twin.b.sessions, token)
     IN /\ twin' = [twin EXCEPT !.a.sessions = va.sessions, !.b.sessions = vb.sessions]
        /\ twinRes' = [op |-> "validateSession", compacted |-> <<va.found>>,
                       plain |-> <<vb.found>>, differed |-> TwinDiffer]
  /\ UNCHANGED <<now, ticks, offTwin>>

\* SessionManager.cleanup() runs, on copy a
TwinSessionCleanup ==
  /\ twin.kind = "session"
  /\ twin' = [twin EXCEPT !.a.sessions = cleanupSessions(@)]
  /\ twinRes' = NoTwinRes
  /\ UNCHANGED <<now, ticks, offTwin>>

\* checkRegisterRate(ip), on both copies
TwinCheckRegisterRate ==
  /\ twin.kind = "register"
  /\ LET ra == checkRegisterRateOn(twin.a.reg[ClientIp])
         rb == checkRegisterRateOn(twin.b.reg[ClientIp])
     IN /\ twin' = [twin EXCEPT !.a.reg[ClientIp] = ra.window, !.b.reg[ClientIp] = rb.window]
        /\ twinRes' = [op |-> "checkRegisterRate", compacted |-> <<ra.allowed>>,
                       plain |-> <<rb.allowed>>, differed |-> TwinDiffer]
  /\ UNCHANGED <<now, ticks, offTwin>>

\* the registerCleanupInterval callback runs, on copy a
TwinRegisterSweep ==
  /\ twin.kind = "register"
  /\ twin' = [twin EXCEPT !.a.reg = registerSweep(@)]
  /\ twinRes' = NoTwinRes
  /\ UNCHANGED <<now, ticks, offTwin>>

(* --------------------------- specifications -------------------------- *)

\* POST /register calls made so far from the client address (no clock advance)
RegisterCalls == Len(registerWindow[ClientIp])

\* Request slots are interchangeable: an arriving request takes the lowest free one.
FreeSlot(r) == req[r].pc = "idle" /\ \A q \in 1..(r - 1) : req[q].pc # "idle"

InitGateway == Init /\ callLimit = 1
InitOpen == InitGateway /\ adminKey = None

\* The tenant lifecycle under concurrency: overlapping requests for two slugs, with
\* well-formed registrations and the admin endpoints open (no ADMIN_KEY). The
\* first slug is registered with either body, the second with the api body.
Next ==
  \/ \E r \in Reqs, b \in {"api", "spec"}, s \in TwoSlugs :
       /\ FreeSlot(r) /\ RegisterCalls < MaxRegisters
       /\ s = <<"s", "1">> \/ b = "api"
       /\ RegisterArrive(r, b, s, "anon")
  \/ \E r \in Reqs : req[r].pc = "guard" /\ \E dns \in DnsFor(r, {<<PublicIp>>}) \cup
                                                   DnsFor(r, {<<>>}) : RegisterGuard(r, dns)
  \/ \E r \in Reqs, o \in {"ok", "http_error"} : RegisterFetched(r, o)
  \/ \E r \in Reqs, s \in TwoSlugs : FreeSlot(r) /\ DeleteSite(r, s, "anon")
  \/ \E r \in Reqs, s \in TwoSlugs, rt \in Routes : FreeSlot(r) /\ DoorRequest(r, s, rt)
  \/ \E r \in Reqs, ok \in BOOLEAN : CapabilityReturns(r, ok)

Spec == InitOpen /\ [][Next]_vars

\* Admission of POST /register: one request at a time, every request body.
NextAdmit ==
  \/ \E b \in BodyNames, s \in {<<"s", "1">>, ShortSlug} :
       RegisterCalls < MaxRegisters /\ RegisterArrive(1, b, s, "anon")
  \/ req[1].pc = "guard" /\ \E dns \in DnsFor(1, DnsAnswers) : RegisterGuard(1, dns)
  \/ \E o \in FetchOutcomes : RegisterFetched(1, o)
  \/ DeleteSite(1, <<"s", "1">>, "anon")

SpecAdmit == InitOpen /\ [][NextAdmit]_vars

\* Admin auth: one request at a time, every credential, with and without ADMIN_KEY.
NextAuth ==
  \/ \E c \in CredNames :
       RegisterCalls < MaxRegisters /\ RegisterArrive(1, "api", <<"s", "1">>, c)
  \/ req[1].pc = "guard" /\ \E dns \in DnsFor(1, {<<PublicIp>>}) : RegisterGuard(1, dns)
  \/ \E o \in {"ok", "http_error"} : RegisterFetched(1, o)
  \/ \E c \in CredNames : ListSites(1, c)
  \/ \E c \in CredNames : DeleteSite(1, <<"s", "1">>, c)

SpecAuth == InitGateway /\ [][NextAuth]_vars

\* The quota under overlapping registrations of three slugs.
NextQuota ==
  \/ \E r \in Reqs, s \in Slugs :
       FreeSlot(r) /\ RegisterCalls < MaxQuotaRegisters /\ RegisterArrive(r, "api", s, "anon")
  \/ \E r \in Reqs : req[r].pc = "guard" /\ \E dns \in DnsFor(r, {<<PublicIp>>}) :
                         RegisterGuard(r, dns)
  \/ \E r \in Reqs : RegisterFetched(r, "ok")

SpecQuota == InitOpen /\ [][NextQuota]_vars

InitRate == Init /\ adminKey = None

NextRate ==
  \/ \E k \in Keys : RateCheck(k)
  \/ RateCleanup
  \/ \E d \in TimeSteps : Advance(d)

SpecRate == InitRate /\ [][NextRate]_vars

\* SessionManagers on their own: a tenant's, and that of a tenant built later.
NextSession ==
  \/ \E ttl \in SessionTtls : SmConstruct(ttl)
  \/ \E m \in 1..MaxManagers : SmCreate(m)
  \/ \E m \in 1..MaxManagers, t \in 1..MaxTokens : SmValidate(m, t)
  \/ \E m \in 1..MaxManagers, t \in 1..MaxTokens : SmEnd(m, t)
  \/ \E m \in 1..MaxManagers : SmCleanup(m)
  \/ \E m \in 1..MaxManagers : SmDestroy(m)
  \/ \E d \in SessionTimeSteps : SmTick(d)

SpecSession == InitOpen /\ [][NextSession]_vars

\* One AgentDoor: its session and capability routes, its upstream, its clock.
NextDoor ==
  \/ \E ttl \in SessionTtls : SmConstruct(ttl)
  \/ DoorCreateSession(ClientIp)
  \/ \E h \in Headers : DoorEndSession(ClientIp, h)
  \/ \E cap \in Capabilities, h \in Headers : DoorCapability(ClientIp, cap, h)
  \/ \E answer \in UpstreamAnswers : DoorUpstreamReturns(answer)
  \/ \E d \in DoorTimeSteps : SmTick(d)

\* rateLimit of the door's configuration
InitDoor == InitRate /\ callLimit = MaxLimit

SpecDoor == InitDoor /\ [][NextDoor]_vars

\* The gateway over stops and starts: registrations, an upstream that changes
\* what it serves, rows that no longer load.
NextRestart ==
  \/ \E text \in GoodTexts \cup BadTexts : UpstreamChanges(text)
  \/ \E slug \in TwoSlugs : RegisterServed(slug)
  \/ \E slug \in TwoSlugs : AgentsJson(slug)
  \/ Shutdown
  \/ \E i \in 1..MaxDoors, text \in BadTexts : RowDamaged(i, text)
  \/ Startup

SpecRestart == InitOpen /\ [][NextRestart]_vars

\* A file Registry over crashes and reopenings.
NextFile ==
  \/ FileOpen
  \/ \E slug \in Slugs : FileRegister(slug)
  \/ \E slug \in Slugs : FileDelete(slug)
  \/ FileWritten
  \/ FileCrash
  \/ FileGarbled

SpecFile == InitOpen /\ [][NextFile]_vars

\* A SQLite Registry: writes, reads, a reopening, and the clock.
NextStore ==
  \/ \E slug \in TwoSlugs, b \in {"api", "spec"} : StoreRegister(slug, b)
  \/ \E slug \in TwoSlugs : StoreGet(slug)
  \/ \E slug \in TwoSlugs : StoreDelete(slug)
  \/ StoreReopen
  \/ \E d \in TimeSteps : Advance(d)

SpecStore == InitOpen /\ [][NextStore]_vars


\* A file Registry's Map: registrations, deletions, and the clock.
NextList ==
  \/ \E slug \in TwoSlugs : SitesRegister(slug)
  \/ \E slug \in TwoSlugs : SitesDelete(slug)
  \/ \E d \in TimeSteps : Advance(d)

SpecList == InitOpen /\ [][NextList]_vars


\* The registration window: calls of one client, one at a time, with bodies
\* that pass and bodies that fail the other checks, and the clock.
NextWindow ==
  \/ \E b \in {"api", "nofields"} : RegisterLogged(b, <<"s", "1">>)
  \/ req[1].pc = "guard" /\ \E dns \in DnsFor(1, {<<PublicIp>>}) : RegisterGuard(1, dns)
  \/ RegisterFetched(1, "http_error")
  \/ \E d \in TimeSteps : Advance(d)

SpecWindow == InitOpen /\ [][NextWindow]_vars


\* The admin endpoints of one client behind the admin limiter, ADMIN_API_KEY set.
NextAdmin ==
  \/ AdminRegister("api", <<"s", "1">>, "apikey_ok")
  \/ \E o \in {"ok", "failed_to_load_spec"} : AdminRegisterSettles(o)
  \/ \E c \in {"apikey_ok", "anon"} : AdminListSites(c)
  \/ AdminDeleteSite(<<"s", "1">>, "apikey_ok")
  \/ \E d \in AdminTimeSteps : ticks < MaxAdminTicks /\ Advance(d)

InitAdmin == InitGateway /\ adminKey = "secret"

SpecAdmin == InitAdmin /\ [][NextAdmin]_vars


\* A server process: connections, a signal, and the clock.
NextShutdown ==
  \/ \E c \in 1..MaxConns : Accept(c)
  \/ \E c \in 1..MaxConns : Finish(c)
  \/ Signal
  \/ ServerClosed
  \/ \E d \in ShutdownTimeSteps : Advance(d)

SpecShutdown == InitOpen /\ [][NextShutdown]_vars


\* Registrations, and GET /sites requests under every choice of host headers.
NextSites ==
  \/ \E s \in TwoSlugs : RegisterCalls < MaxRegisters /\ RegisterArrive(1, "api", s, "anon")
  \/ req[1].pc = "guard" /\ \E dns \in DnsFor(1, {<<PublicIp>>}) : RegisterGuard(1, dns)
  \/ RegisterFetched(1, "ok")
  \/ \E h \in SiteRequests : SitesAsked(h)

SpecSites == InitOpen /\ [][NextSites]_vars


\* Registrations under slugs of every shape, and deletions.
NextSlug ==
  \/ \E s \in {<<"s", "1">>, ShortSlug, RouteSlug} \cup HyphenSlugs :
       RegisterCalls < MaxRegisters /\ RegisterArrive(1, "api", s, "anon")
  \/ req[1].pc = "guard" /\ \E dns \in DnsFor(1, {<<PublicIp>>}) : RegisterGuard(1, dns)
  \/ \E o \in {"ok", "http_error"} : RegisterFetched(1, o)
  \/ \E s \in {RouteSlug} \cup HyphenSlugs : DeleteSite(1, s, "anon")

SpecSlug == InitOpen /\ [][NextSlug]_vars


\* Registrations, deletions, and /:slug requests of every URL shape.
NextRoute ==
  \/ \E s \in TwoSlugs : RegisterCalls < MaxRegisters /\ RegisterArrive(1, "api", s, "anon")
  \/ req[1].pc = "guard" /\ \E dns \in DnsFor(1, {<<PublicIp>>}) : RegisterGuard(1, dns)
  \/ RegisterFetched(1, "ok")
  \/ \E s \in TwoSlugs : DeleteSite(1, s, "anon")
  \/ \E s \in TwoSlugs, rest \in Rests : Routed(s, rest)

SpecRoute == InitOpen /\ [][NextRoute]_vars


\* One AgentDoor with every capability table, and requests of every method and path.
NextDispatch ==
  \/ \E caps \in CapTables : Construct(caps)
  \/ \E m \in {"GET", "POST", "DELETE", "OPTIONS"}, p \in DispatchPaths : Dispatch(m, p)

SpecDispatch == InitOpen /\ [][NextDispatch]_vars


\* The two URL guards, on every URL and resolver answer.
NextGuard ==
  \/ \E u \in GuardUrls, dns \in GuardDns : ResolveAndValidate(u, dns)
  \/ \E u \in GuardUrls, dns \in GuardDns : ValidateExternal(u, dns)

SpecGuard == InitOpen /\ [][NextGuard]_vars

\* The two blocked-address predicates, on every address.
NextProbe ==
  \/ \E a \in ProbeAddrs : ProbeIsPrivateIP(a)
  \/ \E a \in ProbeAddrs : ProbeIsPrivate(a)

SpecProbe == InitOpen /\ [][NextProbe]_vars


\* Two tenants of one gateway, served and deleted in any order.
NextTenants ==
  \/ \E t \in Tenants, caps \in {<<"search">>, <<"cart.add">>} : TenantInstall(t, caps)
  \/ \E t \in Tenants : TenantCreateSession(t)
  \/ \E t \in Tenants, token \in 0..MaxTenantTokens : TenantEndSession(t, token)
  \/ \E t \in Tenants, token \in 0..MaxTenantTokens : TenantCapability(t, token)
  \/ \E t \in Tenants : TenantDelete(t)

SpecTenants == InitOpen /\ [][NextTenants]_vars


\* The same calls on two copies, one of them compacted at any moment.
NextTwin ==
  \/ \E kind \in {"rate", "session", "register"} : TwinStart(kind)
  \/ \E limit \in 1..MaxLimit : TwinCheckRateLimit(limit)
  \/ TwinCleanup
  \/ \E ttl \in SessionTtls : TwinCreateSession(ttl)
  \/ \E token \in 1..MaxTokens : TwinValidateSession(token)
  \/ TwinSessionCleanup
  \/ TwinCheckRegisterRate
  \/ TwinRegisterSweep
  \/ \E d \in TwinTimeSteps : Advance(d)

SpecTwin == InitOpen /\ [][NextTwin]_vars

(* ------------------------------- claims ------------------------------- *)

\* The spec URL of a stored row: its openApiUrl, or its apiUrl + "/openapi.json".
RowSpecUrl(row) ==
  IF row.openApiUrl # NoUrl THEN row.openApiUrl
  ELSE [row.apiUrl EXCEPT !.segs = Append(@, "openapi.json")]

EarlierRefusals ==
  {"invalid_admin_key", "too_many_registrations", "missing_fields", "provide_api_url",
   "bad_slug", "bad_rate_limit", "max_registrations", "already_registered"}

\* C2: a registration whose spec fetch has been issued had siteUrl, apiUrl (if
\* given), openApiUrl (if given) and the resolved spec URL accepted by the guard
\* before; a registration whose openApiUrl is at 169.254.169.254 never has a
\* fetch issued, and is answered 400 once it is past the checks on the fields,
\* the slug, the quota and the duplicate.
C2_GuardBeforeFetch ==
  /\ \A r \in Reqs :
       req[r].fetched =>
         LET body == Bodies[req[r].body]
             base == IF body.apiUrl # NoUrl THEN body.apiUrl ELSE body.siteUrl
             spec == IF body.openApiUrl # NoUrl THEN body.openApiUrl
                     ELSE [base EXCEPT !.segs = Append(@, "openapi.json"), !.slash = FALSE]
         IN /\ body.siteUrl \in req[r].accepted
            /\ body.apiUrl # NoUrl => body.apiUrl \in req[r].accepted
            /\ body.openApiUrl # NoUrl => body.openApiUrl \in req[r].accepted
            /\ spec \in req[r].accepted
            /\ \A u \in req[r].accepted : u.host \notin {PrivateIp, MetaIp}
  /\ resp.kind = "register" /\ Bodies[resp.body].openApiUrl.host = MetaIp
       => /\ ~resp.fetched
          /\ resp.status # 200
          /\ resp.err \notin EarlierRefusals => resp.status = 400

\* C2 witness: the registration with openApiUrl at 169.254.169.254 was refused
C2_Witness ==
  /\ resp.kind = "register" /\ resp.body = "ssrf"
  /\ resp.status = 400 /\ resp.err = "url_not_allowed" /\ ~resp.fetched

\* The request presents exactly the configured key in X-Api-Key or as a Bearer token.
CarriesKey(c) ==
  \/ Creds[c].xApiKey = adminKey
  \/ Creds[c].authorization = [scheme |-> "Bearer", rest |-> adminKey]

\* C3: with an admin key configured, a POST /register, GET /sites or DELETE
\* /sites/:slug that does not carry the key in X-Api-Key or as Authorization:
\* Bearer is answered 401, and one that carries it there is not answered 401.
C3_AdminKeyHeaders ==
  adminKey # None /\ resp.kind \in {"register", "sites", "delete"} /\ resp.cred # None
    => (resp.status = 401 <=> ~CarriesKey(resp.cred))

\* The tenant of slug s is in both maps and its row is in the registry.
Installed(s) == doors[s] # 0 /\ doorMiddlewares[s] # 0 /\ s \in RegistrySlugs

\* In this step a request to /s/... is answered with the unknown-slug 404.
Unknown404(s) ==
  /\ resp'.kind = "door" /\ resp'.slug = s
  /\ resp'.status = 404 /\ resp'.err = "no_agent_door"

\* In this step a request to /s/... is looked up and handed to a door's router.
Dispatched(s) ==
  \/ resp'.kind = "door" /\ resp'.slug = s /\ resp'.err # "no_agent_door"
  \/ resp'.kind = "capability" /\ resp'.slug = s /\ resp'.status = 429
  \/ \E r \in Reqs : req[r].pc = "idle" /\ req'[r].pc = "upstream" /\ req'[r].slug = s

\* C4: when POST /register answers success for slug s, the door of s is in the
\* dispatch map and its row is in the registry; from then on, until a DELETE
\* of s succeeds, no request to /s/... is answered with the unknown-slug 404.
C4_InstalledBeforeSuccess ==
  [][ /\ resp'.kind = "register" /\ resp'.status = 200
         => /\ doors'[resp'.slug] = resp'.door
            /\ doorMiddlewares'[resp'.slug] = resp'.door
            /\ resp'.slug \in {registry'[i].slug : i \in 1..Len(registry')}
      /\ \A s \in AllSlugs :
           /\ Installed(s) => ~Unknown404(s)
           /\ Installed(s) /\ doorMiddlewares'[s] = 0
                => resp'.kind = "delete" /\ resp'.status = 200 /\ resp'.slug = s
    ]_vars

\* C4 witness: a request to the manifest of a registered slug is served by its door
C4_Witness ==
  /\ resp.kind = "door" /\ resp.status = 200
  /\ Installed(resp.slug) /\ resp.door = doorMiddlewares[resp.slug]

\* C5: when DELETE /sites/:slug answers success the door is out of both maps
\* and destroyed; while the slug is out of the map no request to it reaches a
\* door; a capability request suspended in its upstream call when its door was
\* destroyed is answered 200 or 400 as the upstream call comes out.
C5_DeleteThenGone ==
  [][ /\ resp'.kind = "delete" /\ resp'.status = 200
         => /\ doors'[resp'.slug] = 0
            /\ doorMiddlewares'[resp'.slug] = 0
            /\ heap'[resp'.door].destroyed
            /\ doors[resp'.slug] = resp'.door
      /\ \A s \in AllSlugs :
           doorMiddlewares[s] = 0 /\ resp'.kind \in {"door", "capability"} /\ resp'.slug = s
             => Unknown404(s) \/ (resp'.kind = "capability" /\ resp'.status \in {200, 400})
      /\ \A r \in Reqs :
           req[r].pc = "upstream" /\ heap[req[r].door].destroyed /\ req'[r].pc # "upstream"
             => /\ resp'.kind = "capability" /\ resp'.status \in {200, 400}
                /\ resp'.door = req[r].door /\ resp'.slug = req[r].slug
    ]_vars

\* C5 witness: a capability call answered 200 after its door was deleted
C5_Witness ==
  /\ resp.kind = "capability" /\ resp.status = 200
  /\ heap[resp.door].destroyed /\ doorMiddlewares[resp.slug] = 0

\* C6: after a successful DELETE of a registered slug s the registry has no
\* row for s and the manifest of s is answered 404; a registration of s that
\* then runs is not refused as a duplicate and fails on no insert; a manifest
\* always shows the siteName of the row the registry holds for the slug.
C6_DeleteThenReregister ==
  [][ /\ resp'.kind = "delete" /\ resp'.status = 200
         => resp'.slug \notin {registry'[i].slug : i \in 1..Len(registry')}
      /\ \A s \in AllSlugs :
           s \notin RegistrySlugs
             => /\ resp'.kind = "door" /\ resp'.slug = s => Unknown404(s)
                /\ resp'.kind = "register" /\ resp'.slug = s
                     => \/ resp'.status = 200
                        \/ resp'.status = 400 /\ resp'.err \in
                             {"url_not_allowed", "spec_url_not_allowed", "could_not_load_spec"}
      /\ resp'.kind = "door" /\ resp'.status = 200
           => /\ resp'.slug \in RegistrySlugs
              /\ resp'.site = registry[RegistryGet(resp'.slug)].siteName
    ]_vars

\* C6 witness: registered as "Store A", deleted, registered again as "Store B",
\* and the manifest shows "Store B"
C6_Witness ==
  /\ Len(heap) = 2
  /\ heap[1].slug = heap[2].slug /\ heap[1].destroyed /\ heap[1].site = "Store A"
  /\ resp.kind = "door" /\ resp.status = 200 /\ resp.door = 2 /\ resp.site = "Store B"

\* C7: a request to /<slug>/... whose slug is not a key of the tenant map when
\* it is looked up is answered 404 and reaches no door; the two maps have the
\* same keys.
C7_UnknownSlug404 ==
  [][ /\ \A s \in AllSlugs : doors[s] = doorMiddlewares[s]
      /\ \A s \in AllSlugs :
           doors[s] = 0
             => /\ ~Dispatched(s)
                /\ resp'.kind = "door" /\ resp'.slug = s => Unknown404(s) /\ resp'.door = 0
    ]_vars

\* C7 witness: a slug whose door was deleted is answered the unknown-slug 404
C7_Witness ==
  /\ resp.kind = "door" /\ resp.status = 404 /\ resp.err = "no_agent_door"
  /\ \E i \in 1..Len(heap) : heap[i].slug = resp.slug /\ heap[i].destroyed
  /\ doors[resp.slug] = 0

\* C8: a POST /register that completes its spec fetch when its slug already
\* has a tenant (an overlapping registration won) is answered 409 and leaves
\* the tenant and the row as they are.
C8_OverlapIs409 ==
  resp.kind = "register" /\ resp.dup /\ resp.err # "could_not_load_spec"
    => resp.status = 409

\* C9: the tenant map never holds more than MAX_REGISTRATIONS doors.
C9_QuotaHolds == DoorCount <= MAX_REGISTRATIONS

\* C10: for every key, of the calls made so far in a burst that began on an
\* empty window and has stayed within windowMs of its first call, the first
\* limit were allowed and every further one refused.
C10_ExactlyLimitAllowed ==
  \A k \in Keys :
    burst[k].open =>
      /\ burst[k].allowed = (IF burst[k].calls < callLimit THEN burst[k].calls ELSE callLimit)
      /\ burst[k].calls > callLimit => burst[k].calls - burst[k].allowed > 0

\* C10 witness: four calls on one key late in the window, limit 2, two allowed
C10_Witness ==
  /\ callLimit = 2
  /\ \E k \in Keys :
       /\ burst[k].open /\ burst[k].calls = 4 /\ burst[k].allowed = 2
       /\ now - burst[k].start = windowMs - 1
       /\ Len(Timestamps(k)) = 2

\* C11: validateSession on the manager that issued a token, not ended and not
\* destroyed since, returns the session at every time before t0 + ttl seconds
\* and nothing at every time from then on.
C11_ValidWithinTtl ==
  smResult.op = "validate" /\ smResult.token \in DOMAIN issued
    => LET i == issued[smResult.token]
       IN i.live /\ smResult.m = i.by
            => (smResult.found <=> now < i.t0 + i.ttl * 1000)

\* C11 witness: a live token refused at the instant t0 + ttl
C11_Witness ==
  /\ smResult.op = "validate" /\ smResult.token \in DOMAIN issued
  /\ issued[smResult.token].live /\ smResult.m = issued[smResult.token].by
  /\ now = issued[smResult.token].t0 + issued[smResult.token].ttl * 1000
  /\ ~smResult.found

\* C12: a token issued by a manager that was destroyed afterwards is in no
\* manager's map and is returned by no validateSession, on any manager.
C12_DestroyedTokensDead ==
  /\ \A m \in DOMAIN managers : \A x \in managers[m].sessions : ~issued[x.token].dead
  /\ smResult.op = "validate" /\ smResult.token \in DOMAIN issued
       /\ issued[smResult.token].dead => ~smResult.found

\* C12 witness: a token of a destroyed manager, its ttl not yet over, refused by
\* a manager constructed for the next tenant
C12_Witness ==
  /\ smResult.op = "validate" /\ smResult.token \in DOMAIN issued
  /\ issued[smResult.token].dead /\ ~smResult.found
  /\ smResult.m # issued[smResult.token].by
  /\ now < issued[smResult.token].t0 + issued[smResult.token].ttl * 1000

\* A step that handles a DELETE of the session route for the token whose
\* session the door ended in the step before: an adminPassed request adds a
\* timestamp to the window, a refused one changes the response.
RepeatedEnd ==
  /\ dresp.route = "end" /\ dresp.status = 200
  /\ dresp'.route = "end" /\ dresp'.token = dresp.token
  /\ windows' # windows \/ dresp' # dresp

C14_GateBeforeUpstream ==
  /\ [](/\ upcall.pc = "upstream" => upcall.allowed /\ (upcall.needs => upcall.valid)
        /\ dresp.status \in {429, 401} => dresp.upstream = <<>>)
  /\ [][/\ dresp' # dresp /\ dresp'.status = 429
             => managers' = managers /\ upcall' = upcall
        /\ dresp' # dresp /\ dresp'.status = 401
             => windows' # windows /\ upcall' = upcall]_vars

\* C14 witness: a capability that requires a session, asked with the token of
\* a session that is over or ended, answered 401 with no call in flight
C14_Witness ==
  /\ dresp.route = "cart.add" /\ dresp.status = 401
  /\ dresp.error = <<"Invalid or expired session">>
  /\ dresp.token \in DOMAIN issued
  /\ upcall.pc = "idle"

\* C15: when the upstream answers a capability call with a status that is not
\* 2xx, the client gets the error "Upstream returned <status>" and nothing of
\* the upstream body, so two bodies under one status give one response.
C15_OnlyStatusPropagated ==
  dresp.upstream # <<>> /\ dresp.upstream[1].status # 200
    => dresp.error = <<"Upstream returned", dresp.upstream[1].status>>

C17_FailedRowsSkipped ==
  boot.up
    => \A i \in 1..Len(registry) :
         Loads(registry[i].specJson)
           => /\ doors[registry[i].slug] # 0
              /\ doorMiddlewares[registry[i].slug] = doors[registry[i].slug]
              /\ heap[doors[registry[i].slug]].slug = registry[i].slug

\* C17 witness: after a restart a door answers while an earlier row of the
\* registry failed to restore
C17_Witness ==
  /\ boot.up /\ boot.n >= 1
  /\ resp.kind = "agents.json" /\ resp.status = 200
  /\ \E i, j \in 1..Len(registry) :
        /\ i < j /\ ~Loads(registry[i].specJson)
        /\ registry[j].slug = resp.slug /\ doors[registry[i].slug] = 0

\* C18: a Registry opened after a crash holds exactly the registrations from
\* before the last mutation begun or exactly those after it.
C18_CrashAtomic ==
  fresult.op = "open" /\ fresult.mutated
    => freg.sites = fresult.before \/ freg.sites = fresult.after

C20_WriteThenRead ==
  sresult.op = "get" /\ written[sresult.slug] # NoRow
    => sresult.value = written[sresult.slug]

\* C20 witness: after a reopening, a registration without openApiUrl, created
\* at an instant that is no whole second, read back
C20_Witness ==
  /\ sresult.op = "get" /\ sresult.reopened
  /\ written[sresult.slug] # NoRow
  /\ sresult.value[1].openApiUrl = Undefined
  /\ sresult.value[1].createdAt % 1000 # 0

\* C21: register(reg, specJson) for a slug that already has a row does not
\* fail, and the row of that slug then reads back as reg.
C21_RegisterReplaces ==
  sresult.op \in {"register", "register_threw"}
    => /\ sresult.op = "register"
       /\ table[sresult.slug] # NoRow
       /\ <<rowToRegistration(table[sresult.slug][1])>> = sresult.value

\* C22: list() returns the registrations in ascending createdAt order, those
\* of equal createdAt in the order in which they were inserted.
C22_ListByCreatedAt ==
  \A i, j \in 1..Len(list) :
     i < j => \/ list[i].createdAt < list[j].createdAt
              \/ list[i].createdAt = list[j].createdAt /\ list[i].nth < list[j].nth

\* C23: POST /register answers with the earliest violated check of the listed
\* order, in which the registration-rate window comes after the field, slug,
\* rateLimit, quota, duplicate and URL checks: a request answered 429 by the
\* window violates none of those.
C23_ListedOrder ==
  resp.kind = "register" /\ resp.err = "too_many_registrations"
    => LET body == Bodies[resp.body] IN
       /\ body.siteName # None /\ body.siteUrl # NoUrl
       /\ body.apiUrl # NoUrl \/ body.openApiUrl # NoUrl
       /\ SlugPattern(resp.slug)
       /\ body.rateLimit = NoRate \/ (body.rateLimit >= 1 /\ body.rateLimit <= 1000)
       /\ DoorCount < MAX_REGISTRATIONS
       /\ doors[resp.slug] = 0

C26_DrainBeforeDestroy ==
  proc.destroyed \/ proc.registryClosed => InFlight = {}

\* C27: after SIGTERM or SIGINT the process terminates: with exit code 0 once
\* the requests in flight have drained, and at the latest through the forced
\* exit, code 1, when the 10 s have passed without that.
C27_ExitsByDeadline ==
  /\ proc.signalledAt # Running /\ now > proc.signalledAt + DrainDeadline
       => proc.exit \in {0, 1}
  /\ proc.exit = 0 => InFlight = {}

\* C28: with no trusted proxy configured, two GET /sites requests that differ
\* only in their Host and X-Forwarded-* headers are answered with the same
\* gateway URLs.
C28_UrlsIgnoreHostHeaders ==
  Len(answered) = 2 /\ answered[1].rows = answered[2].rows
    => answered[1].urls = answered[2].urls

\* C29: every failed load of the OpenAPI spec in POST /register is answered
\* 400 with the error "Could not load OpenAPI spec", and that text holds no
\* upstream URL or host.
C29_NoUrlInSpecError ==
  resp.kind = "register" /\ resp.fetched /\ resp.err = "could_not_load_spec"
    => /\ resp.status = 400
       /\ \A o \in FetchOutcomes \ {"ok"} :
             LET text == SpecLoadError(specUrl(Bodies[resp.body]), o)
             IN \A i \in 1..Len(text) : "url" \notin DOMAIN text[i]

\* C30: every slug that is a key of the tenant map or of the registry has 2 to
\* 40 characters of a-z, 0-9 and hyphen, neither the first nor the last a
\* hyphen, and is none of the reserved names; a POST /register with any other
\* slug is not accepted.
C30_SlugsWellFormed ==
  /\ \A s \in AllSlugs :
        doors[s] # 0 \/ s \in RegistrySlugs
          => StrictSlugPattern(s) /\ s \notin RESERVED_SLUGS
  /\ resp.kind = "register" /\ resp.status = 200
        => StrictSlugPattern(resp.slug) /\ resp.slug \notin RESERVED_SLUGS

\* C31: a request for /<slug><rest> of a registered tenant reaches the tenant
\* with the path <rest> exactly (/ when <rest> is empty), also when <rest>
\* itself begins with /<slug>; and when the tenant declines, the URL that
\* falls through is the original one.
C31_PrefixStrippedOnce ==
  routed.seen # <<>>
    => LET rest == SubSeq(routed.original, Len(routed.slug) + 2, Len(routed.original))
       IN /\ routed.seen = (IF rest = <<>> THEN <<"/">> ELSE rest)
          /\ routed.after # <<>> => routed.after = routed.original

\* C32: the routes stand in the order agents.txt, agents.json, session create,
\* session end, then the capabilities in their order; a request is handled by
\* the first of them whose pattern and method both match, so a capability that
\* coincides with an earlier route never runs; OPTIONS is answered 204 before
\* any route is tried.
C32_FirstRouteWins ==
  /\ routes # <<>>
       => /\ <<routes[1].kind, routes[2].kind, routes[3].kind, routes[4].kind>>
               = <<"agents.txt", "agents.json", "session.create", "session.end">>
          /\ \A i \in 5..Len(routes) : routes[i].kind = "capability" /\ routes[i].cap = i - 4
  /\ dispatched.method = "OPTIONS" => dispatched.status = 204 /\ dispatched.route = 0
  /\ dispatched.method \notin {None, "OPTIONS"}
       => LET matching == {i \in 1..Len(routes) :
                             /\ matchRoute(routes[i].pattern, dispatched.path)
                             /\ routes[i].method = dispatched.method}
          IN IF matching = {} THEN dispatched.route = 0
             ELSE /\ dispatched.route \in matching
                  /\ \A i \in matching : dispatched.route <= i

\* C32 witness: a POST to the session path handled by session create although a
\* capability of the table has the same pattern and method
C32_Witness ==
  /\ dispatched.route = 3
  /\ \E i \in 5..Len(routes) :
        /\ routes[i].method = dispatched.method
        /\ matchRoute(routes[i].pattern, dispatched.path)

\* C33: checkRateLimit(key, limit) first discards the key's timestamps that are
\* not later than now - 60000; when the count left is >= limit it rejects, adds
\* no timestamp and reports resetAt = earliest remaining timestamp + 60000;
\* otherwise it appends now and reports remaining = limit - (count + 1), the
\* limit less the count after the append.
C33_RemainingAfterAppend ==
  checked.key # None
    => LET windowStart == checked.at - 60000
           count == Cardinality({i \in DOMAIN checked.before : checked.before[i] > windowStart})
           kept == Recent(checked.before, windowStart)
       IN IF count >= checked.limit
          THEN /\ ~checked.allowed
               /\ checked.after = kept
               /\ checked.resetAt = kept[1] + 60000
          ELSE /\ checked.allowed
               /\ checked.after = Append(kept, checked.at)
               /\ checked.remaining = checked.limit - (count + 1)

\* C33 witness: an allowed call that found one timestamp in the window and
\* discarded an older one
C33_Witness ==
  /\ checked.allowed
  /\ Len(checked.after) = 2
  /\ Len(checked.before) = 2
  /\ checked.before[1] <= checked.at - 60000

\* C33 as stated: an allowed call reports remaining = limit - count, count being
\* the in-window count that was compared against limit
C33_RemainingIsLimitLessCount ==
  checked.allowed
    => checked.remaining
         = checked.limit - Len(Recent(checked.before, checked.at - 60000))

\* C34: a URL guard rejects an unparsable URL and a scheme other than http or
\* https; it rejects an IP-literal host that is blocked and accepts any other
\* IP-literal host, IPv6 ones included, without a DNS lookup; every other host
\* is resolved, rejected when the answer is empty or holds a blocked address,
\* and accepted only when every returned address is public.
C34_GuardOrder ==
  urlChecked.by # None
    => LET u == urlChecked.url
           literal == u.host.t # "name"
       IN IF u = Unparsable \/ u.scheme \notin {"http", "https"}
          THEN ~urlChecked.ok /\ ~urlChecked.looked
          ELSE IF literal
          THEN /\ ~urlChecked.looked
               /\ urlChecked.ok <=> ~isPrivate(u.host)
          ELSE /\ urlChecked.ok => urlChecked.looked
               /\ urlChecked.ok => /\ Len(urlChecked.dns) > 0
                                /\ \A i \in 1..Len(urlChecked.dns) : ~isPrivate(urlChecked.dns[i])
               /\ urlChecked.looked
                    => (urlChecked.ok <=> /\ Len(urlChecked.dns) > 0
                                       /\ \A i \in 1..Len(urlChecked.dns) :
                                            ~isPrivate(urlChecked.dns[i]))

\* C35: a blocked-address predicate is true of every IPv4 address in 10/8,
\* 127/8, 172.16/12, 192.168/16, 169.254/16 and 0/8, of ::1 and ::, of every
\* IPv6 address in fc00::/7 and fe80::/10 and of every IPv4-mapped IPv6 address,
\* dotted or hex, whose embedded IPv4 address is blocked; it is false of 8.8.8.8
\* and ::ffff:8.8.8.8.
C35_BlockedRanges ==
  probe.by # None
    => LET a == probe.addr
           InBlocked4(o) ==
             \/ o[1] = 10
             \/ o[1] = 127
             \/ o[1] = 172 /\ o[2] \div 16 = 1
             \/ o[1] = 192 /\ o[2] = 168
             \/ o[1] = 169 /\ o[2] = 254
             \/ o[1] = 0
           InBlocked6(g) ==
             \/ g = <<0, 0, 0, 0, 0, 0, 0, 1>>
             \/ g = <<0, 0, 0, 0, 0, 0, 0, 0>>
             \/ g[1] \div 512 = 126
             \/ g[1] \div 64 = 1018
             \/ /\ SubSeq(g, 1, 6) = <<0, 0, 0, 0, 0, 65535>>
                /\ InBlocked4(<<g[7] \div 256, g[7] % 256, g[8] \div 256, g[8] % 256>>)
       IN /\ a.t = "v4" /\ InBlocked4(a.v) => probe.blocked
          /\ a.t # "v4" /\ InBlocked6(a.v) => probe.blocked
          /\ a \in {V4(<<8, 8, 8, 8>>), V6Dotted(<<8, 8, 8, 8>>)} => ~probe.blocked

\* C36: once restoration has finished, and after every completed POST /register
\* or DELETE /sites/:slug, the slugs of the tenant map are the slugs stored in
\* the registry: every listed site is dispatchable and deletable and every
\* dispatchable slug has a record.
C36_MapMatchesRegistry ==
  boot.up
    => /\ {s \in AllSlugs : doors[s] # 0} = RegistrySlugs
       /\ {s \in AllSlugs : doorMiddlewares[s] # 0} = RegistrySlugs

\* C37: a POST /register that is answered with anything but success leaves the
\* tenant map and the registry exactly as they were before it.
C37_FailureChangesNothing ==
  [][resp'.kind = "register" /\ resp'.status # 200
       => /\ registry' = registry
          /\ doors' = doors
          /\ doorMiddlewares' = doorMiddlewares]_vars

\* C37 witness: a registration that failed in the INSERT, after its door was
\* built, while the slug's earlier registration stands
C37_Witness ==
  /\ resp.kind = "register"
  /\ resp.err = "insert_failed"
  /\ resp.slug \in RegistrySlugs
  /\ doors[resp.slug] # 0

\* C38: whenever no request is in progress, every AgentDoor that was constructed
\* is the door installed in the tenant map under its slug, or was destroyed.
C38_NoDoorLeftRunning ==
  (\A r \in Reqs : req[r].pc = "idle")
    => \A id \in 1..Len(heap) : heap[id].destroyed \/ doors[heap[id].slug] = id

\* C39: what one tenant serves (session create and end, capability calls, the
\* rate limit they consume) and the deletion of that tenant leave the sessions,
\* rate-limit windows and capability table of every other installed tenant as
\* they were.
C39_TenantsIsolated ==
  [][\A t \in Tenants :
       tenants.door[t].up /\ tres'.tenant # t => TenantView(t)' = TenantView(t)]_vars

\* C39 witness: the client's capability call with its session is admitted on B
\* although it has used up its limit on A
C39_Witness ==
  /\ tres.tenant = "B" /\ tres.status = 200 /\ tres.op = "capability"
  /\ tenants.door["A"].up
  /\ Len(TenantView("A").windows) >= tenants.door["A"].rateLimit

\* C40: a compaction (RateLimiter.cleanup, SessionManager.cleanup, the
\* registration-window sweep) run at any moment between the calls never changes
\* what a later checkRateLimit, validateSession or checkRegisterRate answers,
\* compared with the same calls without it.
C40_CompactionInvisible == twinRes.compacted = twinRes.plain

\* C40 witness: a call answered while the compacted copy held other data than
\* the copy that was never compacted
C40_Witness == twinRes.op # None /\ twinRes.differed

====
